---- MODULE Spec2Model ----
(***************************************************************************)
(* A model of the simple-http client: the Destination (connect.rs), the    *)
(* Body stream (body.rs), the wire parser (httparse.rs), the request       *)
(* pipeline (lib.rs), the TCP connector (http/mod.rs), the proxy           *)
(* connector (proxy/mod.rs), the CONNECT tunnel (proxy/tunnel.rs) and the  *)
(* caching resolver with HttpConnecting (http/ares.rs, http/mod.rs).       *)
(*                                                                         *)
(* Strings and byte slices are sequences of one-character strings.         *)
(* Option<T> is a sequence of length 0 (None) or 1 (Some(x)).              *)
(***************************************************************************)
EXTENDS Integers, Sequences, FiniteSets, TLC

VARIABLES
    uri,        \* Destination.uri                      (connect.rs:41)
    uri0,       \* the URI the Destination was constructed with
    call,       \* the last Destination call: what was called, how it ended
    body,       \* Body: drained, rest, counter, content_length (body.rs:11-18)
    reader,     \* Body.reader: bytes handed out so far, end of file seen
    rest0,      \* the rest argument Body::new was given
    out,        \* the items the Body stream has yielded, in order
    rets,       \* what each poll_next so far returned, in order
    reads,      \* how many times the underlying reader was polled
    mark,       \* reads and items at the poll that ended the body
    input,      \* parse_headers: the bytes not yet consumed  (httparse.rs:89)
    status_parsed, \* parse_headers: the status line was taken (httparse.rs:90)
    items,      \* what the parse_headers iterator has yielded, in order
    pstate,     \* the iterator: "run", "end" (returned None) or "panic"
    gen,        \* the status line and header lines input was built from
    checks,     \* the build: arithmetic overflow checks on (debug) or off
    req,        \* request(): the Request it was given           (lib.rs:47)
    srv,        \* the bytes the server sends on the connection
    pc,         \* request(): the await it is suspended at
    wire,       \* what write_all has written to the connection, in order
    pulled,     \* how many chunks x.next() has yielded        (lib.rs:63)
    chunk,      \* the chunk pulled and not yet written
    buf,        \* buf[..left]: the response bytes read so far (lib.rs:70-81)
    zero_read,  \* a read of the receive loop has returned 0 bytes
    parsed,     \* the bytes parse_headers was given        (lib.rs:89)
    resp,       \* what request() returned
    batches,    \* the address batches and fallback_timeout given to
                \* ConnectingTcp::new                   (http/mod.rs:249-254)
    fate,       \* for each address, what becomes of a connect attempt to it
    tcp,        \* ConnectingTcp: preferred, fallback    (http/mod.rs:241-246)
    delay,      \* fallback.delay: "armed", "fired" or "failed"
    att,        \* for each address, the state of its ConnectFuture
    tcp_res,    \* what the last ConnectingTcp::poll returned
    started,    \* the addresses connect() was called for, in order
    seen,       \* the addresses whose attempt was seen to fail, in order
    promoted,   \* fallback.remote has become self.preferred
                \*                                 (http/mod.rs:386, 411)
    proxies,    \* ProxyConnector.proxies               (proxy/mod.rs:164)
    tls,        \* ProxyConnector.tls is Some            (proxy/mod.rs:166)
    pdst,       \* the dst connect() was called with     (proxy/mod.rs:284)
    ppc,        \* the future connect() returned: the step it waits for
    psel,       \* the proxy match_proxy found (its index), 0 for none
    plog,       \* the steps started so far, in order
    pres,       \* what the future of connect() yielded
    hh,         \* what http_headers returned, once it was called
    tin,        \* what tunnel::new and with_stream were given
                \*                               (proxy/tunnel.rs:18, 55)
    tun,        \* Tunnel: buf, stream, connected, state (proxy/tunnel.rs:28-33)
    tsrv,       \* the bytes the proxy sends in reply to CONNECT
    twire,      \* what write_buf has written to the proxy, in order
    tgot,       \* how many bytes of tsrv read_buf has delivered
    tzero,      \* a write_buf or a read_buf has returned 0
    tres,       \* what Tunnel::poll returned last
    now,        \* what Instant::now() returns       (http/ares.rs:67, 77)
    cache,      \* ResolverCache.cache                    (http/ares.rs:59)
    queries,    \* the query_a calls made so far, in order (http/ares.rs:107)
    conn,       \* the HttpConnecting of each connect()  (http/mod.rs:161-169)
    hfate       \* for each address, what becomes of a connect attempt to it

dstVars == <<uri, uri0, call>>
bodyVars == <<body, reader, rest0, out, rets, reads, mark>>
parseVars == <<input, status_parsed, items, pstate, gen, checks>>
pipeVars == <<req, srv, pc, wire, pulled, chunk, buf, zero_read, parsed, resp>>
tcpVars == <<batches, fate, tcp, delay, att, tcp_res, started, seen, promoted>>
proxyVars == <<proxies, tls, pdst, ppc, psel, plog, pres, hh>>
tunVars == <<tin, tun, tsrv, twire, tgot, tzero, tres>>
httpVars == <<now, cache, queries, conn, hfate>>
vars == <<uri, uri0, call, body, reader, rest0, out, rets, reads, mark,
          input, status_parsed, items, pstate, gen, checks,
          req, srv, pc, wire, pulled, chunk, buf, zero_read, parsed, resp,
          batches, fate, tcp, delay, att, tcp_res, started, seen, promoted,
          proxies, tls, pdst, ppc, psel, plog, pres, hh,
          tin, tun, tsrv, twire, tgot, tzero, tres,
          now, cache, queries, conn, hfate>>

-----------------------------------------------------------------------------
(* Option and string helpers *)

None == <<>>
Some(x) == <<x>>
IsSome(o) == Len(o) = 1
IsNone(o) == Len(o) = 0
Unwrap(o) == o[1]

SeqsUpTo(S, n) == UNION {[1..k -> S] : k \in 0..n}

Contains(s, c) == \E i \in 1..Len(s) : s[i] = c

\* 1-based index of the first / last occurrence of c in s, 0 when absent
Find(s, c) == IF Contains(s, c)
              THEN CHOOSE i \in 1..Len(s) : s[i] = c /\ \A j \in 1..(i-1) : s[j] # c
              ELSE 0
RFind(s, c) == IF Contains(s, c)
               THEN CHOOSE i \in 1..Len(s) : s[i] = c /\ \A j \in (i+1)..Len(s) : s[j] # c
               ELSE 0

Digits == <<"0", "1", "2", "3", "4", "5", "6", "7", "8", "9">>
IsDigit(c) == \E d \in 1..10 : Digits[d] = c
DigitVal(c) == (CHOOSE d \in 1..10 : Digits[d] = c) - 1

\* format!("{}", n) of an unsigned integer
RECURSIVE FmtNat(_)
FmtNat(n) == IF n < 10 THEN <<Digits[n + 1]>>
             ELSE FmtNat(n \div 10) \o <<Digits[(n % 10) + 1]>>

U16Max == 65535

\* str::parse::<u16>(): None on an empty string, a non-digit or overflow
RECURSIVE ParseNat(_, _)
ParseNat(s, acc) == IF s = <<>> THEN acc
                    ELSE IF acc > U16Max THEN acc
                    ELSE ParseNat(Tail(s), acc * 10 + DigitVal(Head(s)))
ParseU16(s) == IF s = <<>> \/ \E i \in 1..Len(s) : ~IsDigit(s[i]) THEN None
               ELSE IF ParseNat(s, 0) > U16Max THEN None
               ELSE Some(ParseNat(s, 0))

-----------------------------------------------------------------------------
(* Destination: connect.rs.  A Uri is its three optional parts.            *)

MaxHostLen == 2

HostChars == {"a", ":", "@", "8"}
HostArgs == SeqsUpTo(HostChars, MaxHostLen)
SchemeArgs == { <<"w", "s">>, <<"w", "/">>, <<"h", "t", "t", "p", "s">> }
PortArgs == { None, Some(8), Some(80) }

SchemeChars == {"a", "h", "t", "p", "s", "w", "8", "+", "-", "."}
AuthorityChars == {"a", "u", "8", "0", "."}   \* bytes with no meaning to the scanner

Http == <<"h", "t", "t", "p">>
Slash == <<"/">>

MkUri(s, a, p) == [scheme |-> s, authority |-> a, path |-> p]

\* Uri::default(): "/"
UriDefault == MkUri(None, None, Some(Slash))

\* The URIs a Destination is built from (lib.rs:50 passes the request's URI):
\* absolute with and without port and user-info, path-only, authority-only.
InitialUris == {
    MkUri(Some(Http), Some(<<"a">>), Some(Slash)),
    MkUri(Some(Http), Some(<<"u", "@", "a", ":", "8">>), Some(Slash)),
    UriDefault,
    MkUri(None, Some(<<"a", ":", "8">>), None) }

\* Scheme::from_str: every byte a scheme character
SchemeParseOk(s) == \A i \in 1..Len(s) : s[i] \in SchemeChars

\* Authority::parse: one pass over the bytes
RECURSIVE AuthScan(_, _, _)
AuthScan(s, i, st) ==
    IF i > Len(s) THEN st
    ELSE LET b == s[i] IN
         IF b \in {"/", "?", "#"} THEN [st EXCEPT !.end = i - 1]
         ELSE IF b = ":" THEN AuthScan(s, i + 1, [st EXCEPT !.colon = @ + 1])
         ELSE IF b = "[" THEN AuthScan(s, i + 1, [st EXCEPT !.sb = TRUE])
         ELSE IF b = "]" THEN AuthScan(s, i + 1, [st EXCEPT !.eb = TRUE, !.colon = 0])
         ELSE IF b = "@" THEN AuthScan(s, i + 1, [st EXCEPT !.at = i, !.colon = 0])
         ELSE IF b \notin AuthorityChars THEN [st EXCEPT !.err = TRUE]
         ELSE AuthScan(s, i + 1, st)

\* Authority::from_shared / str::parse::<Authority>(): the whole string is one
\* non-empty authority
AuthorityParseOk(s) ==
    LET st == AuthScan(s, 1, [colon |-> 0, sb |-> FALSE, eb |-> FALSE,
                              at |-> 0, end |-> Len(s), err |-> FALSE])
    IN /\ s # <<>>
       /\ ~st.err
       /\ st.sb = st.eb
       /\ st.colon <= 1
       /\ ~(st.end > 0 /\ st.at = st.end)
       /\ st.end = Len(s)

\* Authority::host: after the last '@'; a bracketed literal, else up to ':'
AuthHost(a) ==
    LET hp == SubSeq(a, RFind(a, "@") + 1, Len(a))
    IN IF hp # <<>> /\ hp[1] = "["
       THEN SubSeq(hp, 1, Find(hp, "]"))
       ELSE IF Contains(hp, ":") THEN SubSeq(hp, 1, Find(hp, ":") - 1) ELSE hp

\* Authority::port_u16: what follows the last ':', when it parses as u16
AuthPort(a) == IF Contains(a, ":")
               THEN ParseU16(SubSeq(a, RFind(a, ":") + 1, Len(a)))
               ELSE None

AuthHasUserInfo(a) == Contains(a, "@")

\* Destination::scheme / host / port
scheme(u) == IF IsSome(u.scheme) THEN Unwrap(u.scheme) ELSE <<>>
host(u) == IF IsSome(u.authority) THEN AuthHost(Unwrap(u.authority)) ELSE <<>>
port(u) == IF IsSome(u.authority) THEN AuthPort(Unwrap(u.authority)) ELSE None
HasUserInfo(u) == IsSome(u.authority) /\ AuthHasUserInfo(Unwrap(u.authority))

\* Uri::from_parts: a scheme needs authority and path; authority with a path
\* needs a scheme
FromPartsOk(p) ==
    IF IsSome(p.scheme)
    THEN IsSome(p.authority) /\ IsSome(p.path)
    ELSE ~(IsSome(p.authority) /\ IsSome(p.path))

Ret(u, r) == [uri |-> u, res |-> r]

\* Destination::update_uri: self.uri holds Uri::default() while parts is
\* rebuilt; the new URI on success, the old one on failure
update_uri(old, parts) ==
    IF FromPartsOk(parts) THEN Ret(parts, "ok") ELSE Ret(old, "parse")

\* Destination::set_scheme
set_scheme(u, s) ==
    IF ~SchemeParseOk(s) THEN Ret(u, "parse")
    ELSE update_uri(u, [u EXCEPT !.scheme = Some(s)])

\* A plausible slip: the user-info guard is missing
host_contains_at_Never(h) == FALSE

\* host.contains('@')
host_contains_at(h) == Contains(h, "@")

\* Destination::set_host
set_host(u, h) ==
    IF host_contains_at(h) THEN Ret(u, "parse")
    ELSE IF IsSome(port(u))
    THEN LET bytes == h \o <<":">> \o FmtNat(Unwrap(port(u))) IN
         IF ~AuthorityParseOk(bytes) THEN Ret(u, "parse")
         ELSE update_uri(u, [u EXCEPT !.authority = Some(bytes)])
    ELSE IF ~AuthorityParseOk(h) THEN Ret(u, "parse")
         ELSE IF IsSome(AuthPort(h)) THEN Ret(u, "parse")
         ELSE update_uri(u, [u EXCEPT !.authority = Some(h)])

\* Destination::set_port / set_port_opt: every failure is an expect(), a panic
set_port_opt(u, p) ==
    LET auth == IF IsSome(p) THEN host(u) \o <<":">> \o FmtNat(Unwrap(p))
                ELSE host(u)
    IN IF ~AuthorityParseOk(auth) THEN Ret(u, "panic")
       ELSE LET r == update_uri(u, [u EXCEPT !.authority = Some(auth)])
            IN IF r.res = "ok" THEN r ELSE Ret(r.uri, "panic")

NoCall == [op |-> "new", arg |-> <<>>, res |-> "ok", pre |-> UriDefault]

DestStart(uris) ==
    /\ uri0 \in uris
    /\ uri = uri0
    /\ call = NoCall

Alive == call.res # "panic"

SetScheme ==
    /\ Alive
    /\ \E s \in SchemeArgs :
         LET r == set_scheme(uri, s) IN
         /\ uri' = r.uri
         /\ call' = [op |-> "set_scheme", arg |-> s, res |-> r.res, pre |-> uri]
    /\ UNCHANGED <<uri0, bodyVars, parseVars, pipeVars, tcpVars, proxyVars, tunVars,
                 httpVars>>

SetHost ==
    /\ Alive
    /\ \E h \in HostArgs :
         LET r == set_host(uri, h) IN
         /\ uri' = r.uri
         /\ call' = [op |-> "set_host", arg |-> h, res |-> r.res, pre |-> uri]
    /\ UNCHANGED <<uri0, bodyVars, parseVars, pipeVars, tcpVars, proxyVars, tunVars,
                 httpVars>>

SetPort ==
    /\ Alive
    /\ \E p \in PortArgs :
         LET r == set_port_opt(uri, p) IN
         /\ uri' = r.uri
         /\ call' = [op |-> "set_port", arg |-> p, res |-> r.res, pre |-> uri]
    /\ UNCHANGED <<uri0, bodyVars, parseVars, pipeVars, tcpVars, proxyVars, tunVars,
                 httpVars>>

DestNext == SetScheme \/ SetHost \/ SetPort

-----------------------------------------------------------------------------
(* Body: body.rs.  The bytes of the response are numbered 1, 2, ... in     *)
(* stream order: rest holds the first ones, the reader hands out the next. *)

MaxRest == 2        \* longest rest handed to Body::new
MaxLen == 2         \* largest content_length
MaxRead == 2        \* most bytes one read returns
MaxPolls == 4       \* polls of one Body

BufLen == 4096

Range(a, b) == [i \in 1..(b - a + 1) |-> a + i - 1]

RECURSIVE SumLen(_)
SumLen(its) == IF its = <<>> THEN 0
                 ELSE Len(Head(its).data) + SumLen(Tail(its))

RECURSIVE Flat(_)
Flat(its) == IF its = <<>> THEN <<>>
               ELSE Head(its).data \o Flat(Tail(its))

MkBody(d, r, c, l) == [drained |-> d, rest |-> r, counter |-> c, content_length |-> l]

\* Body::empty
BodyEmpty == MkBody(TRUE, None, 0, None)

\* Body::new
BodyNew(rest, content_length) == MkBody(FALSE, rest, 0, content_length)

Item(k, src, data) == [kind |-> k, src |-> src, data |-> data]
Polled(b, item, didRead) == [body |-> b, item |-> item, read |-> didRead]

\* What one poll_read of the reader can return: Pending, Ok(n) with the n
\* bytes put in buf[0..n], or Err.
ReadPending == [kind |-> "pending", data |-> <<>>]
ReadErr == [kind |-> "err", data |-> <<>>]
ReadOk(data) == [kind |-> "ok", data |-> data]

\* A plausible slip: rest is cloned, not taken
rest_take_Clone(b) == [body |-> b, vec |-> b.rest]

\* this.rest.take(): the value of rest, and rest left None
rest_take(b) == [body |-> [b EXCEPT !.rest = None], vec |-> b.rest]

\* Body::poll_next with rd the outcome of the read, if one is made.
\* n -= counter - max underflows when counter - max > n: with overflow checks
\* the subtraction panics; without them n wraps to 2^64 - (counter - max - n),
\* which is above BufLen, and buf[0 .. n] panics.  Both builds abort.
poll_next(b, rd) ==
    IF b.drained THEN Polled(b, Item("eos", "none", <<>>), FALSE)
    ELSE IF IsSome(rest_take(b).vec)
    THEN Polled(rest_take(b).body, Item("chunk", "rest", Unwrap(rest_take(b).vec)), FALSE)
    ELSE IF rd.kind = "pending" THEN Polled(b, Item("pending", "none", <<>>), TRUE)
    ELSE IF rd.kind = "err"
    THEN Polled([b EXCEPT !.drained = TRUE], Item("err", "read", <<>>), TRUE)
    ELSE LET n0 == Len(rd.data)
             counter == b.counter + n0
             b2 == [b EXCEPT !.counter = counter]
             over == IF IsSome(b.content_length) /\ counter > Unwrap(b.content_length)
                     THEN counter - Unwrap(b.content_length) ELSE 0
         IN IF over > n0 THEN Polled(b2, Item("panic", "none", <<>>), TRUE)
            ELSE LET n == n0 - over IN
                 IF n > BufLen THEN Polled(b2, Item("panic", "none", <<>>), TRUE)
                 ELSE IF n > 0
                 THEN Polled(b2, Item("chunk", "read", SubSeq(rd.data, 1, n)), TRUE)
                 ELSE Polled(b2, Item("eos", "none", <<>>), TRUE)

RestArgs == {None} \cup {Some(Range(1, r)) : r \in 0..MaxRest}
LenArgs == {None} \cup {Some(l) : l \in 0..MaxLen}
RestLen(r) == IF IsSome(r) THEN Len(Unwrap(r)) ELSE 0

BodyStart(rests, lens, withEmpty) ==
    /\ rest0 \in rests
    /\ \/ \E l \in lens : body = BodyNew(rest0, l)
       \/ withEmpty /\ rest0 = None /\ body = BodyEmpty
    /\ reader = [pos |-> RestLen(rest0), eof |-> FALSE]
    /\ out = <<>>
    /\ rets = <<>>
    /\ reads = 0
    /\ mark = None

\* The outcomes the reader can produce now: after end of file only Ok(0)
ReadOutcomes ==
    IF reader.eof THEN {ReadOk(<<>>)}
    ELSE {ReadPending, ReadErr}
         \cup {ReadOk(Range(reader.pos + 1, reader.pos + n)) : n \in 0..MaxRead}

Delivered(its) == SumLen(its)

\* The body has ended: an error item was yielded, or the content_length-th
\* byte was delivered
Ended(b, its) ==
    \/ \E i \in 1..Len(its) : its[i].kind = "err"
    \/ IsSome(b.content_length) /\ Delivered(its) > 0
                                /\ Delivered(its) >= Unwrap(b.content_length)

polls == Len(rets)
last == IF rets = <<>> THEN "none" ELSE rets[Len(rets)]

Poll(rd) ==
    /\ last # "panic"
    /\ polls < MaxPolls
    /\ LET r == poll_next(body, rd)
           out2 == IF r.item.kind \in {"chunk", "err"} THEN Append(out, r.item) ELSE out
           reads2 == IF r.read THEN reads + 1 ELSE reads
       IN /\ body' = r.body
          /\ out' = out2
          /\ rets' = Append(rets, r.item.kind)
          /\ reads' = reads2
          /\ reader' = IF r.read /\ rd.kind = "ok"
                       THEN [pos |-> reader.pos + Len(rd.data),
                             eof |-> Len(rd.data) = 0]
                       ELSE reader
          /\ mark' = IF IsNone(mark) /\ Ended(r.body, out2)
                     THEN Some([reads |-> reads2, items |-> Len(out2)])
                     ELSE mark
    /\ UNCHANGED <<rest0, dstVars, parseVars, pipeVars, tcpVars, proxyVars, tunVars,
                 httpVars>>

PollReady == \E rd \in ReadOutcomes : rd.kind = "ok" /\ Poll(rd)
PollPending == ~body.drained /\ IsNone(body.rest) /\ ~reader.eof /\ Poll(ReadPending)
PollFailing == ~body.drained /\ IsNone(body.rest) /\ ~reader.eof /\ Poll(ReadErr)

BodyNext == PollReady \/ PollPending \/ PollFailing

-----------------------------------------------------------------------------
(* Wire parser: httparse.rs *)

MaxHeaders == 2     \* header lines in one block

SP == " "
CR == "\r"
LF == "\n"
CRLF == <<CR, LF>>

\* The printable ASCII characters in code order, from 32 (the backslash, 92,
\* and the backquote, 96, by name)
Printable == <<
    " ", "!", "\"", "#", "$", "%", "&", "'", "(", ")", "*", "+", ",", "-", ".", "/",
    "0", "1", "2", "3", "4", "5", "6", "7", "8", "9", ":", ";", "<", "=", ">", "?",
    "@", "A", "B", "C", "D", "E", "F", "G", "H", "I", "J", "K", "L", "M", "N", "O",
    "P", "Q", "R", "S", "T", "U", "V", "W", "X", "Y", "Z", "[", "backslash", "]", "^", "_",
    "backquote", "a", "b", "c", "d", "e", "f", "g", "h", "i", "j", "k", "l", "m", "n", "o",
    "p", "q", "r", "s", "t", "u", "v", "w", "x", "y", "z", "{", "|", "}", "~" >>

\* The byte value of a character (u8 as i16)
ByteOf(c) == IF c = CR THEN 13
             ELSE IF c = LF THEN 10
             ELSE 31 + (CHOOSE i \in 1..Len(Printable) : Printable[i] = c)

\* slice.split(|x| *x == c): the pieces between the separators, at least one
RECURSIVE Split(_, _)
Split(s, c) == IF ~Contains(s, c) THEN <<s>>
               ELSE <<SubSeq(s, 1, Find(s, c) - 1)>>
                    \o Split(SubSeq(s, Find(s, c) + 1, Len(s)), c)

\* input.windows(2).position(|s| s == b"\r\n"): 0-based, -1 for None
CrlfPos(s) ==
    IF \E i \in 1..(Len(s) - 1) : s[i] = CR /\ s[i + 1] = LF
    THEN (CHOOSE i \in 1..(Len(s) - 1) :
             /\ s[i] = CR /\ s[i + 1] = LF
             /\ \A j \in 1..(i - 1) : ~(s[j] = CR /\ s[j + 1] = LF)) - 1
    ELSE -1

Trimmed(v) == [panic |-> FALSE, val |-> v]
TrimPanic == [panic |-> TRUE, val |-> <<>>]

\* ltrim: drop leading spaces
RECURSIVE ltrim(_)
ltrim(val) == IF val # <<>> /\ val[1] = SP THEN ltrim(Tail(val)) ELSE val

\* rtrim: while the last byte is a space, cut to len - 2.
\* val.len() - 1 on an empty slice: a panic with overflow checks, else it wraps
\* and get() returns None.  val.len() - 2 on a one-byte slice: a panic with
\* overflow checks, else it wraps and the slice index is out of range (a panic).
RECURSIVE rtrim(_, _)
rtrim(val, chk) ==
    IF Len(val) = 0 THEN (IF chk THEN TrimPanic ELSE Trimmed(val))
    ELSE IF val[Len(val)] = SP
    THEN IF Len(val) < 2 THEN TrimPanic
         ELSE rtrim(SubSeq(val, 1, Len(val) - 2), chk)
    ELSE Trimmed(val)

Status(code, version, reason) ==
    [kind |-> "Status", code |-> code, a |-> version, b |-> reason]
Header(name, value) == [kind |-> "Header", code |-> 0, a |-> name, b |-> value]
Err(e, at) == [kind |-> e, code |-> 0, a |-> at, b |-> <<>>]
Panic == [kind |-> "panic", code |-> 0, a |-> <<>>, b |-> <<>>]

\* parse_header
parse_header(line, chk) ==
    LET parts == Split(line, ":")
        n == rtrim(parts[1], chk)
    IN IF n.panic THEN Panic
       ELSE LET name == ltrim(n.val) IN
            IF Len(parts) < 2 THEN Err("WrongHeader", name)
            ELSE LET v == rtrim(parts[2], chk) IN
                 IF v.panic THEN Panic ELSE Header(name, ltrim(v.val))

HTTP == <<"H", "T", "T", "P">>

\* parse_status
parse_status(line) ==
    LET parts == Split(line, SP)
        x == parts[1]
    IN IF Len(x) < 4 THEN Panic                         \* &x[0..4]
       ELSE IF SubSeq(x, 1, 4) # HTTP
       THEN Err("WrongStatusHeader", SubSeq(line, 1, 4))
       ELSE IF Len(x) < 5 THEN Panic                    \* &x[5..]
       ELSE IF Len(parts) < 2 THEN Err("WrongStatusCode", <<>>)
       ELSE LET code == parts[2] IN
            IF Len(code) < 3 THEN Err("WrongStatusCode", code)
            ELSE LET a == ByteOf(code[1]) - ByteOf("0")
                     b == ByteOf(code[2]) - ByteOf("0")
                     c == ByteOf(code[3]) - ByteOf("0")
                 IN IF a < 1 \/ a > 5 \/ b < 0 \/ b > 9 \/ c < 0 \/ c > 9
                    THEN Err("WrongStatusCode", code)
                    ELSE IF Len(parts) < 3 THEN Err("WrongStatusReason", <<>>)
                    ELSE Status(a * 100 + b * 10 + c,
                                SubSeq(x, 6, Len(x)), parts[3])

\* One next() of the iterator parse_headers returns: the input left, the flag,
\* and the item (kind "None" when the iterator ends)
EndOfHeaders == [kind |-> "None", code |-> 0, a |-> <<>>, b |-> <<>>]
Stepped(inp, sp, item) == [input |-> inp, status_parsed |-> sp, item |-> item]

parse_headers_next(inp, sp, chk) ==
    LET idx == CrlfPos(inp) IN
    IF idx < 0 THEN Stepped(inp, sp, EndOfHeaders)
    ELSE LET line == SubSeq(inp, 1, idx)
             left == SubSeq(inp, idx + 3, Len(inp))
         IN IF ~sp THEN Stepped(left, TRUE, parse_status(line))
            ELSE IF Len(line) > 0 THEN Stepped(left, sp, parse_header(line, chk))
            ELSE Stepped(left, sp, EndOfHeaders)

\* The status lines and header lines the inputs are built from
Version10 == <<"H", "T", "T", "P", "/", "1", ".", "0">>

\* The code token of a status line: a number as format!("{}") writes it, or
\* some other bytes
Codes == {100, 200, 404, 599, 99, 600, 2000}
RawTokens == { <<"0", "9", "9">>, <<"2", "x", "0">>, <<"2", "0">> }
CodeTokens == {[code |-> Some(c), tok |-> FmtNat(c)] : c \in Codes}
                  \cup {[code |-> None, tok |-> t] : t \in RawTokens}

Reasons == {
    None,
    Some(<<>>),
    Some(<<"O", "K">>),
    Some(<<"N", "o", "t", " ", "F", "o", "u", "n", "d">>) }

Line(name, value) == [name |-> name, value |-> value]

HeaderLines == {
    Line(<<"a">>, Some(<<" ", "b">>)),
    Line(<<"a">>, Some(<<"b">>)),
    Line(<<"a">>, Some(<<" ", "b", " ">>)),
    Line(<<"a", " ">>, Some(<<" ", "b">>)),
    Line(<<"a">>, Some(<<>>)),
    Line(<<"a">>, Some(<<" ">>)),
    Line(<<"a">>, Some(<<" ", "b", ":", "c">>)),
    Line(<<"a", "b">>, None) }

StatusLine(tok, reason) ==
    Version10 \o <<SP>> \o tok
        \o (IF IsSome(reason) THEN <<SP>> \o Unwrap(reason) ELSE <<>>)

HeaderLine(h) ==
    h.name \o (IF IsSome(h.value) THEN <<":">> \o Unwrap(h.value) ELSE <<>>)

RECURSIVE HeaderBytes(_)
HeaderBytes(hs) == IF hs = <<>> THEN <<>>
                   ELSE HeaderLine(Head(hs)) \o CRLF \o HeaderBytes(Tail(hs))

\* The block as it is on the wire: status line, header lines, empty line
Block(g) == StatusLine(g.tok, g.reason) \o CRLF \o HeaderBytes(g.hdrs) \o CRLF

ParseStart(toks, reasons, lines, n, builds) ==
    /\ \E t \in toks, r \in reasons, hs \in SeqsUpTo(lines, n) :
          gen = [code |-> t.code, tok |-> t.tok, reason |-> r, hdrs |-> hs,
                 line |-> None]
    /\ checks \in builds
    /\ input = Block(gen)
    /\ status_parsed = FALSE
    /\ items = <<>>
    /\ pstate = "run"

\* Status lines whose first token is not HTTP/<version>; the tokens after it
\* are a valid code and a reason where the line has them
OddStatusLines == {
    <<>>,
    <<"H", "T">>,
    <<"H", "T", "T", "P">>,
    <<"H", "T", " ", "2", "0", "0", " ", "O", "K">>,
    <<"H", "T", "T", "P", " ", "2", "0", "0", " ", "O", "K">>,
    <<"H", "T", "T", "X", "/", "1", ".", "0", " ", "2", "0", "0", " ", "O", "K">>,
    <<"H", "T", "T", "P", "S", "/", "1", ".", "0", " ", "2", "0", "0", " ",
      "O", "K">> }

\* a block that is one of these status lines and the empty line
ParseOdd(lines, builds) ==
    /\ \E l \in lines :
          gen = [code |-> None, tok |-> FmtNat(200), reason |-> None,
                 hdrs |-> <<>>, line |-> Some(l)]
    /\ checks \in builds
    /\ input = Unwrap(gen.line) \o CRLF \o CRLF
    /\ status_parsed = FALSE
    /\ items = <<>>
    /\ pstate = "run"

\* Iterator::next on parse_headers
ParseStep(ends) ==
    /\ pstate = "run"
    /\ LET r == parse_headers_next(input, status_parsed, checks) IN
       /\ (r.item.kind \in {"None", "panic"}) = ends
       /\ input' = r.input
       /\ status_parsed' = r.status_parsed
       /\ items' = IF r.item.kind \in {"None", "panic"} THEN items
                   ELSE Append(items, r.item)
       /\ pstate' = IF r.item.kind = "None" THEN "end"
                    ELSE IF r.item.kind = "panic" THEN "panic"
                    ELSE "run"
    /\ UNCHANGED <<gen, checks, dstVars, bodyVars, pipeVars, tcpVars, proxyVars, tunVars,
                 httpVars>>

NextItem == ParseStep(FALSE)
NextEnd == ParseStep(TRUE)

ParseNext == NextItem \/ NextEnd

-----------------------------------------------------------------------------
(* Client pipeline: Client::request and Client::build_req (lib.rs)         *)

MaxReqHeaders == 2   \* caller headers of one request
MaxChunks == 2       \* chunks of one request body
MaxRespHeaders == 2  \* header lines of the response the server sends
MaxTail == 2         \* bytes the server sends after the header block
MaxSegment == 1460   \* most bytes one read returns of a stream that does
                     \* not fit the header buffer

HeaderBufLen == 4096

Upper == <<"A", "B", "C", "D", "E", "F", "G", "H", "I", "J", "K", "L", "M",
           "N", "O", "P", "Q", "R", "S", "T", "U", "V", "W", "X", "Y", "Z">>
Lower == <<"a", "b", "c", "d", "e", "f", "g", "h", "i", "j", "k", "l", "m",
           "n", "o", "p", "q", "r", "s", "t", "u", "v", "w", "x", "y", "z">>

\* str::to_lowercase on the characters of Printable
to_lowercase(s) ==
    [i \in 1..Len(s) |->
        IF \E k \in 1..26 : Upper[k] = s[i]
        THEN Lower[CHOOSE k \in 1..26 : Upper[k] = s[i]]
        ELSE s[i]]

\* String::from_utf8_lossy(..).to_string(): a byte that is not UTF-8 becomes
\* U+FFFD; the one such byte of the model is written "xFF"
from_utf8_lossy(bs) ==
    [i \in 1..Len(bs) |-> IF bs[i] = "xFF" THEN "uFFFD" ELSE bs[i]]

\* str::parse::<usize>: an optional '+', then one or more digits (tokens of
\* the model have at most nine digits, far below usize::MAX)
parse_usize(v) ==
    LET ds == IF v # <<>> /\ v[1] = "+" THEN Tail(v) ELSE v IN
    IF ds = <<>> \/ (\E i \in 1..Len(ds) : ~IsDigit(ds[i])) \/ Len(ds) > 9
    THEN None
    ELSE Some(ParseNat(ds, 0))

\* PathAndQuery::as_str: "/" when the stored path is empty
as_str(pq) == IF pq = <<>> THEN Slash ELSE pq

HostName == <<"H", "o", "s", "t", ":", " ">>
ConnectionClose == <<"C", "o", "n", "n", "e", "c", "t", "i", "o", "n", ":",
                     " ", "c", "l", "o", "s", "e", CR, LF>>
Http10 == <<" ", "H", "T", "T", "P", "/", "1", ".", "0", CR, LF>>

\* the test of the loop of build_req: the header is the caller's Host
is_host(name) == to_lowercase(name) = <<"h", "o", "s", "t">>

\* the loop of build_req over the caller's headers
RECURSIVE push_headers(_)
push_headers(hs) ==
    IF hs = <<>> THEN <<>>
    ELSE (IF is_host(Head(hs)[1]) THEN <<>>
          ELSE Head(hs)[1] \o <<":", " ">> \o Head(hs)[2] \o CRLF)
         \o push_headers(Tail(hs))

\* Client::build_req; url.host().unwrap() panics on a URI with no host
build_req(method, url, headers) ==
    LET pq == IF IsSome(url.path) THEN as_str(Unwrap(url.path)) ELSE Slash IN
    IF IsNone(url.authority) THEN [panic |-> TRUE, val |-> <<>>]
    ELSE [panic |-> FALSE,
          val |-> method \o <<SP>> \o pq \o Http10
                    \o HostName \o host(url) \o CRLF
                    \o ConnectionClose
                    \o push_headers(headers)
                    \o CRLF]

\* buf[..left].windows(4).position(|s| s == b"\r\n\r\n"): -1 for None,
\* else the 0-based index
TerminatorPos(s) ==
    LET hits == {i \in 1..(Len(s) - 3) : SubSeq(s, i, i + 3) = CRLF \o CRLF}
    IN IF hits = {} THEN -1
       ELSE (CHOOSE i \in hits : \A j \in hits : i <= j) - 1

Extracted(st, rs, hs) ==
    [kind |-> "ok", status |-> st, reason |-> rs, headers |-> hs]
ParseFailed == [kind |-> "err", status |-> 0, reason |-> <<>>, headers |-> <<>>]
ParsePanic == [kind |-> "panic", status |-> 0, reason |-> <<>>, headers |-> <<>>]

\* the for loop over parse_headers(&buf[0 .. idx]) in request
RECURSIVE parse_loop(_, _, _, _)
parse_loop(inp, sp, chk, acc) ==
    LET r == parse_headers_next(inp, sp, chk) IN
    IF r.item.kind = "None" THEN acc
    ELSE IF r.item.kind = "panic" THEN ParsePanic
    ELSE IF r.item.kind = "Status"
    THEN \* Header::Status(code, r, _): r is the second field of the item
         parse_loop(r.input, r.status_parsed, chk,
                    [acc EXCEPT !.status = r.item.code,
                                !.reason = from_utf8_lossy(r.item.a)])
    ELSE IF r.item.kind = "Header"
    THEN parse_loop(r.input, r.status_parsed, chk,
                    [acc EXCEPT !.headers =
                        Append(@, <<to_lowercase(from_utf8_lossy(r.item.a)),
                                    from_utf8_lossy(r.item.b)>>)])
    ELSE ParseFailed

ContentLengthName == <<"c", "o", "n", "t", "e", "n", "t", "-",
                       "l", "e", "n", "g", "t", "h">>

\* header.2.iter().find_map(..): the first content-length header whose value
\* parses
RECURSIVE content_length(_)
content_length(hs) ==
    IF hs = <<>> THEN None
    ELSE IF Head(hs)[1] = ContentLengthName /\ IsSome(parse_usize(Head(hs)[2]))
    THEN parse_usize(Head(hs)[2])
    ELSE content_length(Tail(hs))

\* what request() returned: nothing yet, a Response, an io::Error, or a panic
NoResult == [kind |-> "none", msg |-> "", status |-> 0, reason |-> <<>>,
             headers |-> <<>>, rest |-> <<>>, content_length |-> None]
Failed(msg) == [NoResult EXCEPT !.kind = "err", !.msg = msg]
Panicked == [NoResult EXCEPT !.kind = "panic"]
Response(st, rs, hs, rest, cl) ==
    [kind |-> "ok", msg |-> "", status |-> st, reason |-> rs,
     headers |-> hs, rest |-> rest, content_length |-> cl]

\* len == 0 after a read
broken_headers_Never(len) == FALSE
broken_headers(len) == len = 0

\* &buf[idx .. left]
rest_of_Skip(b, idx) == SubSeq(b, idx + 2, Len(b))
rest_of(b, idx) == SubSeq(b, idx + 1, Len(b))

\* one pass of the receive loop after a read of data: buf[..left], the bytes
\* parse_headers was given if it was called, and what the pass ends with
received(b, data, chk) ==
    IF broken_headers(Len(data))
    THEN [buf |-> b, parsed |-> None, res |-> Failed("Broken headers")]
    ELSE LET nb == b \o data
             pos == TerminatorPos(nb)
         IN IF pos < 0 THEN [buf |-> nb, parsed |-> None, res |-> NoResult]
            ELSE LET idx == pos + 4
                     h == parse_loop(SubSeq(nb, 1, idx), FALSE, chk,
                                     Extracted(0, <<>>, <<>>))
                 IN [buf |-> nb,
                     parsed |-> Some(SubSeq(nb, 1, idx)),
                     res |-> IF h.kind = "panic" THEN Panicked
                             ELSE IF h.kind = "err"
                             THEN Failed("Parse header error")
                             ELSE Response(h.status, h.reason, h.headers,
                                           rest_of(nb, idx),
                                           content_length(h.headers))]

\* The requests the caller makes
Methods == { <<"G", "E", "T">>, <<"P", "O", "S", "T">> }
ReqUris == {
    MkUri(Some(Http), Some(<<"a">>), Some(<<"/", "x", "?", "q">>)),
    MkUri(Some(Http), Some(<<"a", ":", "8">>), Some(<<>>)),
    MkUri(None, Some(<<"a">>), None),
    MkUri(None, None, Some(<<"/", "x">>)) }
CallerHeaders == {
    << <<"X">>, <<"v">> >>,
    << <<"H", "o", "s", "t">>, <<"e">> >>,
    << <<"h", "O", "S", "T">>, <<"e">> >>,
    << <<"X">>, <<"v", CR, LF, "H", "o", "s", "t", ":", " ", "e">> >> }
ChunkOk(data) == [ok |-> TRUE, data |-> data]
ChunkErr == [ok |-> FALSE, data |-> <<>>]
Chunks == {ChunkOk(<<"1">>), ChunkOk(<<"2", "3">>), ChunkErr}
Bodies == {None} \cup {Some(c) : c \in SeqsUpTo(Chunks, MaxChunks)}

Request(m, u, hs, b) == [method |-> m, uri |-> u, headers |-> hs, body |-> b]
ReqDefault == Request(<<"G", "E", "T">>,
                      MkUri(Some(Http), Some(<<"a">>), Some(Slash)), <<>>, None)
\* any URI and headers with the plain method and body, or any method and
\* body with the plain URI and headers
Requests ==
    {Request(ReqDefault.method, u, hs, ReqDefault.body) :
        u \in ReqUris, hs \in SeqsUpTo(CallerHeaders, MaxReqHeaders)}
    \cup {Request(m, ReqDefault.uri, ReqDefault.headers, b) :
        m \in Methods, b \in Bodies}

\* The bytes the server sends: a header block and what follows it
RespTokens == {[code |-> Some(200), tok |-> FmtNat(200)],
               [code |-> Some(404), tok |-> FmtNat(404)],
               [code |-> None, tok |-> <<"2", "0">>]}
RespReasons == {Some(<<"O", "K">>)}
RespLines == {
    Line(<<"A">>, Some(<<" ", "b">>)),
    Line(<<"C", "o", "n", "t", "e", "n", "t", "-", "L", "e", "n", "g", "t", "h">>,
         Some(<<" ", "1">>)),
    Line(<<"E">>, Some(<<>>)) }
RespDefault == [code |-> Some(200), tok |-> FmtNat(200),
                reason |-> Some(<<"O", "K">>), hdrs |-> <<>>, tail |-> <<>>]
Responses == {[code |-> t.code, tok |-> t.tok, reason |-> r, hdrs |-> hs,
               tail |-> Range(1, n)] :
                 t \in RespTokens, r \in RespReasons,
                 hs \in SeqsUpTo(RespLines, MaxRespHeaders), n \in 0..MaxTail}
\* a response whose header block does not fit the header buffer
LongLine == Line(<<"A">>, Some([i \in 1..HeaderBufLen |-> "a"]))
RespLong == [RespDefault EXCEPT !.hdrs = <<LongLine>>]
Stream(g) == Block(g) \o [i \in 1..Len(g.tail) |-> FmtNat(g.tail[i])[1]]

PipeStart(reqs, resps) ==
    /\ req \in reqs
    /\ srv \in resps
    /\ pc = "connect"
    /\ wire = <<>>
    /\ pulled = 0
    /\ chunk = None
    /\ buf = <<>>
    /\ zero_read = FALSE
    /\ parsed = None
    /\ resp = NoResult

Running == resp.kind = "none"

\* self.inner.connect(..) completes, then build_req
Connect(ok) ==
    /\ Running /\ pc = "connect"
    /\ IF ~ok THEN pc' = "end" /\ resp' = Failed("connect")
       ELSE IF build_req(req.method, req.uri, req.headers).panic
       THEN pc' = "end" /\ resp' = Panicked
       ELSE pc' = "write_header" /\ resp' = resp
    /\ UNCHANGED <<req, srv, wire, pulled, chunk, buf, zero_read, parsed>>
    /\ UNCHANGED <<dstVars, bodyVars, parseVars, tcpVars, proxyVars, tunVars,
                 httpVars>>

ConnectOk == Connect(TRUE)
ConnectFails == Connect(FALSE)

\* if let Some(mut body) = req.body.take(): the await that follows the head
body_next_Skip(b) == "read"
body_next(b) == IF IsSome(b) THEN "next_chunk" ELSE "read"

\* write_all(conn, header.as_bytes()) completes, then req.body.take()
WriteHeader(ok) ==
    /\ Running /\ pc = "write_header"
    /\ IF ~ok THEN pc' = "end" /\ resp' = Failed("write") /\ wire' = wire
       ELSE /\ wire' = Append(wire,
                              build_req(req.method, req.uri, req.headers).val)
            /\ pc' = body_next(req.body)
            /\ resp' = resp
    /\ UNCHANGED <<req, srv, pulled, chunk, buf, zero_read, parsed>>
    /\ UNCHANGED <<dstVars, bodyVars, parseVars, tcpVars, proxyVars, tunVars,
                 httpVars>>

WriteHeaderOk == WriteHeader(TRUE)
WriteHeaderFails == WriteHeader(FALSE)

\* x.next() completes: a chunk, an error (res?), or the end of the stream
NextChunk ==
    /\ Running /\ pc = "next_chunk"
    /\ LET cs == Unwrap(req.body) IN
       IF pulled = Len(cs)
       THEN pc' = "read" /\ UNCHANGED <<pulled, chunk, resp>>
       ELSE /\ pulled' = pulled + 1
            /\ IF cs[pulled + 1].ok
               THEN /\ chunk' = Some(cs[pulled + 1].data)
                    /\ pc' = "write_chunk" /\ resp' = resp
               ELSE /\ chunk' = chunk
                    /\ pc' = "end" /\ resp' = Failed("body")
    /\ UNCHANGED <<req, srv, wire, buf, zero_read, parsed>>
    /\ UNCHANGED <<dstVars, bodyVars, parseVars, tcpVars, proxyVars, tunVars,
                 httpVars>>

\* write_all(conn, res?) completes
WriteChunk(ok) ==
    /\ Running /\ pc = "write_chunk"
    /\ IF ~ok THEN pc' = "end" /\ resp' = Failed("write") /\ wire' = wire
       ELSE /\ wire' = Append(wire, Unwrap(chunk))
            /\ pc' = "next_chunk" /\ resp' = resp
    /\ chunk' = None
    /\ UNCHANGED <<req, srv, pulled, buf, zero_read, parsed>>
    /\ UNCHANGED <<dstVars, bodyVars, parseVars, tcpVars, proxyVars, tunVars,
                 httpVars>>

WriteChunkOk == WriteChunk(TRUE)
WriteChunkFails == WriteChunk(FALSE)

\* the loop body after a read of data, r being what the pass leaves
LoopTurn(r, data) ==
    /\ buf' = r.buf
    /\ resp' = r.res
    /\ parsed' = IF IsSome(r.parsed) THEN r.parsed ELSE parsed
    /\ pc' = IF r.res.kind = "none" THEN "read" ELSE "end"
    /\ IF r.res.kind = "ok"
       THEN \* Body::new(conn, Some(rest.to_vec()), content_length): the Body
            \* reads the connection from where the loop stopped
            /\ body' = BodyNew(Some(r.res.rest), r.res.content_length)
            /\ rest0' = Some(r.res.rest)
            /\ reader' = [pos |-> Len(r.buf), eof |-> FALSE]
       ELSE UNCHANGED <<body, rest0, reader>>
    /\ zero_read' = (zero_read \/ data = <<>>)

\* read(conn, &mut buf[left ..]) completes with data, then the loop body
Read(data) ==
    /\ Running /\ pc = "read"
    /\ LoopTurn(received(buf, data, checks), data)
    /\ UNCHANGED <<req, srv, wire, pulled, chunk, out, rets, reads, mark>>
    /\ UNCHANGED <<dstVars, parseVars, tcpVars, proxyVars, tunVars, httpVars>>

\* &mut buf[left ..]: the bytes a read can store
room_More(left) == HeaderBufLen + 1 - left
room(left) == HeaderBufLen - left

\* how many bytes a read can return: any number of those the server still
\* sends that fits buf[left ..]; a stream longer than the buffer arrives in
\* segments
ReadLens(stream, left) ==
    LET avail == IF Len(stream) - left < room(left)
                 THEN Len(stream) - left ELSE room(left)
    IN IF Len(stream) < HeaderBufLen THEN 1..avail
       ELSE {n \in {MaxSegment, avail} : n >= 1 /\ n <= avail}

\* the server's next bytes arrive
ReadSome ==
    \E n \in ReadLens(Stream(srv), Len(buf)) :
        Read(SubSeq(Stream(srv), Len(buf) + 1, Len(buf) + n))

\* the peer has closed, or buf[left ..] is empty: the read returns 0 bytes
ReadZero == Read(<<>>)

\* the read fails
ReadFails ==
    /\ Running /\ pc = "read"
    /\ pc' = "end" /\ resp' = Failed("read")
    /\ UNCHANGED <<req, srv, wire, pulled, chunk, buf, zero_read, parsed>>
    /\ UNCHANGED <<dstVars, bodyVars, parseVars, tcpVars, proxyVars, tunVars,
                 httpVars>>

\* What a poll_read of the Body of the Response can return: the server's
\* next bytes, then Ok(0) once all of them were read, or Err
StreamReads ==
    LET left == Len(Stream(srv)) - reader.pos IN
    IF reader.eof \/ left = 0 THEN {ReadOk(<<>>)}
    ELSE {ReadErr}
         \cup {ReadOk(SubSeq(Stream(srv), reader.pos + 1, reader.pos + n)) :
                   n \in 1..(IF left < MaxRead THEN left ELSE MaxRead)}

\* the caller polls the Body of the Response request() returned
PollResponse ==
    /\ resp.kind = "ok"
    /\ \E rd \in StreamReads : Poll(rd)

PipeNext == \/ ConnectOk \/ ConnectFails \/ WriteHeaderOk \/ WriteHeaderFails
            \/ NextChunk \/ WriteChunkOk \/ WriteChunkFails
            \/ ReadSome \/ ReadZero \/ ReadFails

-----------------------------------------------------------------------------
(* TCP connector: ConnectingTcp and ConnectingTcpRemote (http/mod.rs)      *)

MaxAddrs == 3        \* addresses of both batches together

\* What becomes of a connect attempt to an address: the stream connects
\* ("ok"), the ConnectFuture fails at a later poll ("err") or at its first
\* poll ("err_now"), or connect() itself fails before there is a future
\* ("nostart")
Fates == {"ok", "err", "err_now", "nostart"}

Remote(addrs, current) == [addrs |-> addrs, current |-> current]
\* ConnectingTcpRemote::new
RemoteNew(addrs) == Remote(addrs, None)

\* ConnectingTcp::new, after split_by_preference
ConnectingTcpNew(preferred_addrs, fallback_addrs, fallback_timeout) ==
    IF fallback_timeout
    THEN IF fallback_addrs = <<>>
         THEN [preferred |-> RemoteNew(preferred_addrs), fallback |-> None]
         ELSE [preferred |-> RemoteNew(preferred_addrs),
               fallback |-> Some(RemoteNew(fallback_addrs))]
    ELSE [preferred |-> RemoteNew(preferred_addrs \o fallback_addrs),
          fallback |-> None]

NotReady == [kind |-> "notready", addr |-> 0]
Ready(a) == [kind |-> "ready", addr |-> a]
ConnErr(a) == [kind |-> "err", addr |-> a]
Abort == [kind |-> "panic", addr |-> 0]
Unpolled == [kind |-> "none", addr |-> 0]

\* what a poll of a ConnectingTcpRemote leaves: the remote, the attempts, the
\* result, and the attempts started and the failures seen, in order
Polling(rm, at, res, st, ob) ==
    [rm |-> rm, at |-> at, res |-> res, started |-> st, seen |-> ob]

\* err = Some(e)
keep_err_First(err, e) == IF IsSome(err) THEN err ELSE Some(e)
keep_err(err, e) == Some(e)

\* ConnectingTcpRemote::poll: the loop, err being its local
RECURSIVE remote_loop(_, _, _, _, _, _)
remote_loop(ft, rm, at, err, st, ob) ==
    LET start(a, at2, e, ob2) ==
            \* connect(&addr, ..)? then continue
            IF ft[a] = "nostart"
            THEN Polling(Remote(Tail(rm.addrs), rm.current), at2, ConnErr(a),
                         Append(st, a), Append(ob2, a))
            ELSE remote_loop(ft, Remote(Tail(rm.addrs), Some(a)),
                             [at2 EXCEPT ![a] = IF ft[a] = "err_now"
                                                THEN "err" ELSE "pending"],
                             e, Append(st, a), ob2)
    IN
    IF IsSome(rm.current)
    THEN LET c == Unwrap(rm.current) IN
         IF at[c] = "pending" THEN Polling(rm, at, NotReady, st, ob)
         ELSE IF at[c] = "ok"
         THEN Polling(rm, [at EXCEPT ![c] = "done"], Ready(c), st, ob)
         ELSE IF at[c] = "err"
         THEN LET e == keep_err(err, c)
                  at2 == [at EXCEPT ![c] = "done"]
                  ob2 == Append(ob, c)
              IN IF rm.addrs # <<>> THEN start(Head(rm.addrs), at2, e, ob2)
                 ELSE Polling(rm, at2, ConnErr(Unwrap(e)), st, ob2)
         ELSE Polling(rm, at, Abort, st, ob)    \* a future polled again
    ELSE IF rm.addrs # <<>> THEN start(Head(rm.addrs), at, err, ob)
    ELSE IF IsSome(err) THEN Polling(rm, at, ConnErr(Unwrap(err)), st, ob)
    ELSE Polling(rm, at, Abort, st, ob)         \* expect("missing connect error")

\* ConnectingTcpRemote::poll
remote_poll(ft, rm, at, st, ob) == remote_loop(ft, rm, at, None, st, ob)

\* what a poll of the ConnectingTcp leaves
TcpPolled(pref, fb, p) ==
    [tcp |-> [preferred |-> pref, fallback |-> fb], at |-> p.at,
     res |-> p.res, started |-> p.started, seen |-> p.seen,
     promoted |-> FALSE]
\* the same after self.preferred = fallback.remote
TcpPromoted(p) == [TcpPolled(p.rm, None, p) EXCEPT !.promoted = TRUE]

\* fallback.delay.poll() is Ok(Async::Ready(_))
delay_ready_Early(dl) == dl # "failed"
delay_ready(dl) == dl = "fired"

\* self.preferred = fallback.remote
promote_Keep(preferred, remote) == preferred
promote(preferred, remote) == remote

\* ConnectingTcp::poll; dl is what fallback.delay.poll() returns
tcp_poll(ft, c, at, dl, st, ob) ==
    LET p == remote_poll(ft, c.preferred, at, st, ob) IN
    IF IsNone(c.fallback) THEN TcpPolled(p.rm, None, p)
    ELSE LET fb == Unwrap(c.fallback) IN
         IF p.res.kind = "ready" THEN TcpPolled(p.rm, None, p)
         ELSE IF p.res.kind = "notready"
         THEN IF delay_ready(dl)
              THEN LET f == remote_poll(ft, fb, p.at, p.started, p.seen) IN
                   IF f.res.kind = "ready" THEN TcpPromoted(f)
                   ELSE IF f.res.kind = "notready"
                   THEN TcpPolled(p.rm, Some(f.rm), f)
                   ELSE IF f.res.kind = "err"
                   THEN TcpPolled(p.rm, None, [f EXCEPT !.res = NotReady])
                   ELSE TcpPolled(p.rm, None, f)
              ELSE IF dl = "armed" THEN TcpPolled(p.rm, Some(fb), p)
              ELSE TcpPolled(p.rm, None, p)
         ELSE IF p.res.kind = "err"
         THEN LET f == remote_poll(ft, promote(p.rm, fb), p.at, p.started,
                                   p.seen)
              IN TcpPromoted(f)
         ELSE TcpPolled(p.rm, None, p)

\* The address batches ConnectingTcp::new is given: addresses 1..m, the first
\* k of them preferred (a fallback batch comes with a preferred one), and for
\* each address what becomes of a connect attempt to it
TcpStart(n) ==
    /\ \E k \in 0..n, m \in 0..n :
         /\ k <= m
         /\ k = 0 => m = 0
         /\ \E t \in BOOLEAN, ft \in [1..m -> Fates] :
              /\ batches = [preferred |-> Range(1, k),
                            fallback |-> Range(k + 1, m), timeout |-> t]
              /\ fate = ft
              /\ tcp = ConnectingTcpNew(Range(1, k), Range(k + 1, m), t)
              /\ att = [a \in 1..m |-> "idle"]
    /\ delay = "armed"
    /\ tcp_res = Unpolled
    /\ started = <<>>
    /\ seen = <<>>
    /\ promoted = FALSE

TcpLive == tcp_res.kind \in {"none", "notready"}

\* HttpConnecting::poll polls the ConnectingTcp
TcpPoll ==
    /\ TcpLive
    /\ LET r == tcp_poll(fate, tcp, att, delay, started, seen) IN
       /\ tcp' = r.tcp
       /\ att' = r.at
       /\ tcp_res' = r.res
       /\ started' = r.started
       /\ seen' = r.seen
       /\ promoted' = (promoted \/ r.promoted)
    /\ UNCHANGED <<batches, fate, delay>>
    /\ UNCHANGED <<dstVars, bodyVars, parseVars, pipeVars, proxyVars, tunVars,
                 httpVars>>

\* a pending connect attempt completes
Complete ==
    /\ TcpLive
    /\ \E a \in DOMAIN att :
         /\ att[a] = "pending"
         /\ att' = [att EXCEPT ![a] = IF fate[a] = "ok" THEN "ok" ELSE "err"]
    /\ UNCHANGED <<batches, fate, tcp, delay, tcp_res, started, seen, promoted>>
    /\ UNCHANGED <<dstVars, bodyVars, parseVars, pipeVars, proxyVars, tunVars,
                 httpVars>>

\* the fallback delay elapses, or the timer fails
Timer(to) ==
    /\ TcpLive
    /\ IsSome(tcp.fallback)
    /\ delay = "armed"
    /\ delay' = to
    /\ UNCHANGED <<batches, fate, tcp, att, tcp_res, started, seen, promoted>>
    /\ UNCHANGED <<dstVars, bodyVars, parseVars, pipeVars, proxyVars, tunVars,
                 httpVars>>

TimerFires == Timer("fired")
TimerFails == Timer("failed")

TcpNext == TcpPoll \/ Complete \/ TimerFires \/ TimerFails

-----------------------------------------------------------------------------
(* Proxy connector: ProxyConnector (proxy/mod.rs)                          *)

MaxProxies == 2      \* proxies of one ProxyConnector

Https == <<"h", "t", "t", "p", "s">>

\* What Intercept::matches is given: Dst for Uri and Dst for Destination
DstView(s, h, p) == [scheme |-> s, host |-> h, port |-> p]
DstOfUri(u) ==
    DstView(u.scheme,
            IF IsSome(u.authority) THEN Some(AuthHost(Unwrap(u.authority)))
            ELSE None,
            port(u))
DstOfDestination(u) == DstView(Some(scheme(u)), Some(host(u)), port(u))

Intercept(kind, f) == [kind |-> kind, f |-> f]
InterceptAll == Intercept("All", "")
InterceptHttp == Intercept("Http", "")
InterceptHttps == Intercept("Https", "")
InterceptNone == Intercept("None", "")
\* Custom: the closures of the model
Custom(f) == Intercept("Custom", f)
CustomFn(f, s, h, p) ==
    IF f = "host_a" THEN h = Some(<<"a">>)
    ELSE IF f = "has_port" THEN IsSome(p)
    ELSE FALSE

\* Intercept::matches
matches(ic, d) ==
    IF ic.kind = "All" THEN TRUE
    ELSE IF ic.kind = "Http" /\ d.scheme = Some(Http) THEN TRUE
    ELSE IF ic.kind = "Https" /\ d.scheme = Some(Https) THEN TRUE
    ELSE IF ic.kind = "Custom" THEN CustomFn(ic.f, d.scheme, d.host, d.port)
    ELSE FALSE

\* Proxy: intercept, headers, uri
Proxy(ic, hs, u) == [intercept |-> ic, headers |-> hs, uri |-> u]

\* self.proxies.iter().find(..): the index of the proxy found, 0 for None
match_proxy_Last(ps, d) ==
    LET hits == {i \in 1..Len(ps) : matches(ps[i].intercept, d)} IN
    IF hits = {} THEN 0 ELSE CHOOSE i \in hits : \A j \in hits : j <= i
match_proxy(ps, d) ==
    LET hits == {i \in 1..Len(ps) : matches(ps[i].intercept, d)} IN
    IF hits = {} THEN 0 ELSE CHOOSE i \in hits : \A j \in hits : i <= j

\* uri.scheme_part().map_or(true, |s| s.as_str() != "http"), negated
scheme_is_http_Prefix(u) ==
    IsSome(u.scheme) /\ Len(Unwrap(u.scheme)) >= 4
        /\ SubSeq(Unwrap(u.scheme), 1, 4) = Http
scheme_is_http(u) == IsSome(u.scheme) /\ Unwrap(u.scheme) = Http

\* ProxyConnector::http_headers
http_headers(ps, u) ==
    IF ~scheme_is_http(u) THEN None
    ELSE IF match_proxy(ps, DstOfUri(u)) = 0 THEN None
    ELSE Some(ps[match_proxy(ps, DstOfUri(u))].headers)

\* proxy_dst: the clone of dst with the proxy's scheme, host and port
proxy_dst(dst, proxy) ==
    IF IsNone(proxy.scheme) THEN Ret(dst, "missing scheme")
    ELSE LET a == set_scheme(dst, Unwrap(proxy.scheme)) IN
         IF a.res # "ok" THEN Ret(dst, a.res)
         ELSE IF IsNone(proxy.authority) THEN Ret(dst, "missing host")
         ELSE LET b == set_host(a.uri, host(proxy)) IN
              IF b.res # "ok" THEN Ret(dst, b.res)
              ELSE set_port_opt(b.uri, port(proxy))

\* dst.port().unwrap_or(443)
port_or_80(p) == IF IsSome(p) THEN Unwrap(p) ELSE 80
port_or_443(p) == IF IsSome(p) THEN Unwrap(p) ELSE 443

\* hyper's Connected: Connected::new() and .proxy(v)
Connected(proxied) == [is_proxied |-> proxied]
ConnectedNew == Connected(FALSE)

\* the steps of a connect, as they are started
InnerCall(d) == [ev |-> "inner", dst |-> d, host |-> <<>>, port |-> 0,
                 headers |-> <<>>]
TunnelRun(h, p, hs) == [ev |-> "tunnel", dst |-> UriDefault, host |-> h,
                        port |-> p, headers |-> hs]
TlsRun(h) == [ev |-> "tls", dst |-> UriDefault, host |-> h, port |-> 0,
              headers |-> <<>>]

\* what the future of connect() yields
Pending == [kind |-> "none", stream |-> "", connected |-> ConnectedNew]
Yield(s, c) == [kind |-> "ok", stream |-> s, connected |-> c]
ConnectError == [kind |-> "err", stream |-> "", connected |-> ConnectedNew]
ConnectPanic == [kind |-> "panic", stream |-> "", connected |-> ConnectedNew]

\* The proxies and destinations of the model
ProxyUri == MkUri(Some(Http), Some(<<"u", ":", "8", "0">>), Some(Slash))
ProxyUriTls == MkUri(Some(Https), Some(<<"u">>), Some(Slash))
ProxyUriBare == MkUri(None, Some(<<"u", ":", "8", "0">>), None)
ProxySet == {
    Proxy(InterceptAll, <<"A">>, ProxyUri),
    Proxy(InterceptHttp, <<"H">>, ProxyUri),
    Proxy(InterceptHttps, <<"S">>, ProxyUriTls),
    Proxy(InterceptNone, <<"N">>, ProxyUri),
    Proxy(Custom("host_a"), <<"C">>, ProxyUri),
    Proxy(Custom("has_port"), <<"P">>, ProxyUriTls),
    Proxy(InterceptAll, <<"B">>, ProxyUriBare) }
ProxyDsts == {
    MkUri(Some(Http), Some(<<"a">>), Some(Slash)),
    MkUri(Some(Http), Some(<<"u", "@", "a", ":", "8">>), Some(Slash)),
    MkUri(Some(Https), Some(<<"a">>), Some(Slash)),
    MkUri(Some(Https), Some(<<"0", ":", "8">>), Some(Slash)),
    MkUri(Some(<<"w", "s">>), Some(<<"a">>), Some(Slash)),
    UriDefault,
    MkUri(None, Some(<<"a", ":", "8">>), None) }

ProxyStart(sets, n, dsts, tlss) ==
    /\ proxies \in SeqsUpTo(sets, n)
    /\ tls \in tlss
    /\ pdst \in dsts
    /\ ppc = "new"
    /\ psel = 0
    /\ plog = <<>>
    /\ pres = Pending
    /\ hh = None

\* ProxyConnector::connect: up to the future it returns
PConnect ==
    /\ ppc = "new"
    /\ LET i == match_proxy(proxies, DstOfDestination(pdst)) IN
       /\ psel' = i
       /\ IF i = 0
          THEN /\ plog' = Append(plog, InnerCall(pdst))
               /\ ppc' = "inner" /\ pres' = pres
          ELSE LET pd == proxy_dst(pdst, proxies[i].uri) IN
               IF pd.res = "ok"
               THEN /\ plog' = Append(plog, InnerCall(pd.uri))
                    /\ ppc' = "inner" /\ pres' = pres
               ELSE /\ plog' = plog
                    /\ ppc' = "done"
                    /\ pres' = IF pd.res = "panic" THEN ConnectPanic
                               ELSE ConnectError
    /\ UNCHANGED <<proxies, tls, pdst, hh>>
    /\ UNCHANGED <<dstVars, bodyVars, parseVars, pipeVars, tcpVars, tunVars,
                 httpVars>>

\* the inner connector's future completes
InnerDone(ok) ==
    /\ ppc = "inner"
    /\ IF ~ok THEN ppc' = "done" /\ pres' = ConnectError /\ plog' = plog
       ELSE IF psel # 0 /\ scheme(pdst) = Https
       THEN /\ plog' = Append(plog, TunnelRun(host(pdst),
                                              port_or_443(port(pdst)),
                                              proxies[psel].headers))
            /\ ppc' = "tunnel" /\ pres' = pres
       ELSE /\ ppc' = "done" /\ plog' = plog
            /\ pres' = Yield("Regular", ConnectedNew)
    /\ UNCHANGED <<proxies, tls, pdst, psel, hh>>
    /\ UNCHANGED <<dstVars, bodyVars, parseVars, pipeVars, tcpVars, tunVars,
                 httpVars>>

InnerOk == InnerDone(TRUE)
InnerFails == InnerDone(FALSE)

\* the Tunnel future completes: on success with connected.proxy(true)
TunnelDone(ok) ==
    /\ ppc = "tunnel"
    /\ IF ~ok THEN ppc' = "done" /\ pres' = ConnectError /\ plog' = plog
       ELSE IF tls
       THEN /\ plog' = Append(plog, TlsRun(host(pdst)))
            /\ ppc' = "tls" /\ pres' = pres
       ELSE /\ ppc' = "done" /\ plog' = plog
            /\ pres' = Yield("Regular", Connected(TRUE))
    /\ UNCHANGED <<proxies, tls, pdst, psel, hh>>
    /\ UNCHANGED <<dstVars, bodyVars, parseVars, pipeVars, tcpVars, tunVars,
                 httpVars>>

TunnelOk == TunnelDone(TRUE)
TunnelFails == TunnelDone(FALSE)

\* tls.connect(&host, io) completes
TlsDone(ok) ==
    /\ ppc = "tls"
    /\ ppc' = "done"
    /\ pres' = IF ok THEN Yield("Secured", Connected(TRUE)) ELSE ConnectError
    /\ UNCHANGED <<proxies, tls, pdst, psel, plog, hh>>
    /\ UNCHANGED <<dstVars, bodyVars, parseVars, pipeVars, tcpVars, tunVars,
                 httpVars>>

TlsOk == TlsDone(TRUE)
TlsFails == TlsDone(FALSE)

\* the caller asks http_headers for the URI of the destination
HttpHeaders ==
    /\ hh = None
    /\ hh' = Some(http_headers(proxies, pdst))
    /\ UNCHANGED <<proxies, tls, pdst, ppc, psel, plog, pres>>
    /\ UNCHANGED <<dstVars, bodyVars, parseVars, pipeVars, tcpVars, tunVars,
                 httpVars>>

ProxyNext == \/ PConnect \/ InnerOk \/ InnerFails \/ TunnelOk \/ TunnelFails
             \/ TlsOk \/ TlsFails \/ HttpHeaders

-----------------------------------------------------------------------------
(* Proxy tunnel: TunnelConnect and Tunnel (proxy/tunnel.rs)                *)

MaxTunnelHeaders == 1    \* proxy headers sent with one CONNECT

ConnectWord == <<"C", "O", "N", "N", "E", "C", "T", " ">>
Http11Line == <<" ", "H", "T", "T", "P", "/", "1", ".", "1", CR, LF>>
Terminator == <<CR, LF, CR, LF>>
Prefix11 == <<"H", "T", "T", "P", "/", "1", ".", "1", " ", "2", "0", "0">>
Prefix10 == <<"H", "T", "T", "P", "/", "1", ".", "0", " ", "2", "0", "0">>

\* slice.starts_with(p), slice.ends_with(p)
starts_with(s, p) == Len(s) >= Len(p) /\ SubSeq(s, 1, Len(p)) = p
ends_with(s, p) ==
    Len(s) >= Len(p) /\ SubSeq(s, Len(s) - Len(p) + 1, Len(s)) = p

\* HeaderValue::to_str: every byte is visible ASCII or a tab
to_str_ok(v) ==
    \A i \in 1..Len(v) :
        v[i] = "\t" \/ \E k \in 1..Len(Printable) : Printable[k] = v[i]

\* HeadersDisplay::fmt: "{}: {}\r\n" for each header, fmt::Error for a value
\* that is not a str
RECURSIVE HeadersDisplay(_)
HeadersDisplay(hs) ==
    IF hs = <<>> THEN [err |-> FALSE, val |-> <<>>]
    ELSE IF ~to_str_ok(hs[1].value) THEN [err |-> TRUE, val |-> <<>>]
    ELSE LET r == HeadersDisplay(Tail(hs)) IN
         [err |-> r.err,
          val |-> hs[1].name \o <<":", " ">> \o hs[1].value \o CRLF \o r.val]

\* tunnel::new: the CONNECT request; format! panics when a Display fails
tunnel_new(h, p, headers) ==
    LET hd == HeadersDisplay(headers)
        hp == h \o <<":">> \o FmtNat(p)
    IN IF hd.err THEN [panic |-> TRUE, buf |-> <<>>]
       ELSE [panic |-> FALSE,
             buf |-> ConnectWord \o hp \o Http11Line
                     \o HostName \o hp \o CRLF \o hd.val \o CRLF]

\* Tunnel<S>: buf is a Cursor<Vec<u8>>, its vector and its position
Tunnel(b, pos, stream, connected, state) ==
    [buf |-> b, pos |-> pos, stream |-> stream, connected |-> connected,
     state |-> state]

\* TunnelConnect::with_stream; into_buf() is a cursor at position 0
with_stream(tc, stream, connected) ==
    Tunnel(tc.buf, 0, Some(stream), Some(connected), "Writing")

\* Cursor: what is left between the position and the end
remaining(t) == IF t.pos < Len(t.buf) THEN Len(t.buf) - t.pos ELSE 0

\* what Tunnel::poll returns, or that its loop goes round again
TunnelNotReady == [kind |-> "notready", msg |-> "", stream |-> None,
                   connected |-> None]
TunnelAgain == [TunnelNotReady EXCEPT !.kind = "again"]
TunnelErr(msg) == [TunnelNotReady EXCEPT !.kind = "err", !.msg = msg]
TunnelReady(s, c) == [kind |-> "ready", msg |-> "", stream |-> s,
                      connected |-> c]
TunnelPanic == [TunnelNotReady EXCEPT !.kind = "panic"]
TunnelTurn(t, res) == [tun |-> t, res |-> res]

\* Buf::advance of the cursor by the n bytes write_buf has written
advance_Stay(pos, n) == pos
advance(pos, n) == pos + n

\* one turn of the loop in Writing; n is what write_buf returned
tunnel_writing(t, n) ==
    LET t2 == [t EXCEPT !.pos = advance(@, n)] IN
    IF remaining(t2) = 0
    THEN TunnelTurn([t2 EXCEPT !.state = "Reading", !.buf = <<>>], TunnelAgain)
    ELSE IF n = 0
    THEN TunnelTurn(t2, TunnelErr("unexpected EOF while tunnel writing"))
    ELSE TunnelTurn(t2, TunnelAgain)

\* read.len() > 12
long_enough_16(read) == Len(read) > 16
long_enough(read) == Len(read) > 12

\* read.starts_with(b"HTTP/1.1 200") || read.starts_with(b"HTTP/1.0 200")
prefix_200_Only11(read) == starts_with(read, Prefix11)
prefix_200(read) == starts_with(read, Prefix11) \/ starts_with(read, Prefix10)

\* n == 0 after read_buf
read_eof_Never(n) == FALSE
read_eof(n) == n = 0

\* one turn of the loop in Reading; data is what read_buf appended
tunnel_reading(t, data) ==
    LET t2 == [t EXCEPT !.buf = @ \o data]
        read == t2.buf
    IN
    IF read_eof(Len(data))
    THEN TunnelTurn(t2, TunnelErr("unexpected EOF while tunnel reading"))
    ELSE IF long_enough(read)
    THEN IF prefix_200(read)
         THEN IF ends_with(read, Terminator)
              THEN TunnelTurn([t2 EXCEPT !.stream = None, !.connected = None],
                              TunnelReady(Unwrap(t2.stream),
                                  [Unwrap(t2.connected)
                                       EXCEPT !.is_proxied = TRUE]))
              ELSE TunnelTurn(t2, TunnelAgain)
         ELSE TunnelTurn(t2, TunnelErr("unsuccessful tunnel"))
    ELSE TunnelTurn(t2, TunnelAgain)

\* The replies of the proxy: a status line, header lines, the empty line, and
\* bytes after it
Version11 == <<"H", "T", "T", "P", "/", "1", ".", "1">>
Version20 == <<"H", "T", "T", "P", "/", "2", ".", "0">>
Reply(version, code, reason, hs, tail) ==
    version \o <<SP>> \o FmtNat(code)
        \o (IF IsSome(reason) THEN <<SP>> \o Unwrap(reason) ELSE <<>>)
        \o CRLF \o HeaderBytes(hs) \o CRLF \o tail
TunnelReplies ==
    {Reply(v, c, r, <<>>, <<>>) :
        v \in {Version11, Version10, Version20}, c \in {200, 407},
        r \in {None, Some(<<"O", "K">>)}}
    \cup {Reply(v, 200, Some(<<"O", "K">>), <<Line(<<"A">>, <<"b">>)>>, t) :
              v \in {Version11, Version10}, t \in {<<>>, <<"x">>}}
    \cup {Reply(Version11, 200, None, <<>>, <<"x">>)}

\* The proxy headers of a CONNECT; the value of the last is not a str
TunnelHeaders == {Line(<<"a">>, <<"b">>), Line(<<"c">>, <<"xFF">>)}

TunnelStart(ports, hsets, n, replies) ==
    /\ \E p \in ports, hs \in SeqsUpTo(hsets, n) :
         /\ tin = [host |-> <<"h">>, port |-> p, headers |-> hs,
                   stream |-> "io", connected |-> ConnectedNew]
         /\ LET tc == tunnel_new(<<"h">>, p, hs) IN
            /\ tun = with_stream(tc, "io", ConnectedNew)
            /\ tres = IF tc.panic THEN TunnelPanic ELSE TunnelNotReady
    /\ tsrv \in replies
    /\ twire = <<>>
    /\ tgot = 0
    /\ tzero = FALSE

\* the and_then over the Tunnel polls it until it is ready or has failed
TunnelLive == tres.kind = "notready"

TunnelTurned(r) ==
    /\ tun' = r.tun
    /\ tres' = IF r.res.kind = "again" THEN TunnelNotReady ELSE r.res

\* write_buf writes n of the bytes left, from the position of the cursor
TunnelWrite ==
    /\ TunnelLive /\ tun.state = "Writing"
    /\ \E n \in 0..remaining(tun) :
         /\ twire' = twire \o SubSeq(tun.buf, tun.pos + 1, tun.pos + n)
         /\ tzero' = (tzero \/ n = 0)
         /\ TunnelTurned(tunnel_writing(tun, n))
    /\ UNCHANGED <<tin, tsrv, tgot>>
    /\ UNCHANGED <<dstVars, bodyVars, parseVars, pipeVars, tcpVars, proxyVars,
                 httpVars>>

\* read_buf appends the next k bytes the proxy has sent
TunnelRead ==
    /\ TunnelLive /\ tun.state = "Reading"
    /\ \E k \in 1..(Len(tsrv) - tgot) :
         /\ tgot' = tgot + k
         /\ TunnelTurned(tunnel_reading(tun, SubSeq(tsrv, tgot + 1, tgot + k)))
    /\ UNCHANGED <<tin, tsrv, twire, tzero>>
    /\ UNCHANGED <<dstVars, bodyVars, parseVars, pipeVars, tcpVars, proxyVars,
                 httpVars>>

\* read_buf returns 0: the proxy has closed the connection
TunnelReadZero ==
    /\ TunnelLive /\ tun.state = "Reading"
    /\ tzero' = TRUE
    /\ TunnelTurned(tunnel_reading(tun, <<>>))
    /\ UNCHANGED <<tin, tsrv, twire, tgot>>
    /\ UNCHANGED <<dstVars, bodyVars, parseVars, pipeVars, tcpVars, proxyVars,
                 httpVars>>

\* try_ready!: write_buf or read_buf fails
TunnelIoFails ==
    /\ TunnelLive
    /\ tres' = TunnelErr("io")
    /\ UNCHANGED <<tin, tun, tsrv, twire, tgot, tzero>>
    /\ UNCHANGED <<dstVars, bodyVars, parseVars, pipeVars, tcpVars, proxyVars,
                 httpVars>>

TunnelNext == TunnelWrite \/ TunnelRead \/ TunnelReadZero \/ TunnelIoFails

-----------------------------------------------------------------------------
(* Resolver cache and HttpConnecting (http/ares.rs, http/mod.rs)           *)

MaxClock == 2       \* readings Instant::now() can take
MaxIp == 2          \* addresses a name can resolve to

\* The hosts of the model: two names and an IPv4 literal
HostA == <<"a">>
HostB == <<"b">>
IpLiteral == <<"1", ".", "1", ".", "1", ".", "1">>
Names == {HostA, HostB}
\* what a cache can be asked for
CacheKeys == Names \cup {IpLiteral}

\* dns::IpAddrs::try_parse: the address of a host that is an IP literal
try_parse(h) == IF h = IpLiteral THEN Some(<<1>>) ELSE None

\* dns::IpAddrs::split_by_preference: every address query_a yields is IPv4,
\* so all of them are of the preferred family
split_by_preference(addrs) == [preferred |-> addrs, fallback |-> <<>>]

\* ResolverCache: an entry is (addrs, Instant::now() at the insert)
Entry(addrs, at) == [addrs |-> addrs, at |-> at]
CacheEmpty == [n \in CacheKeys |-> None]

\* ttl < &Instant::now()
fresh(at, t) == at < t

\* ResolverCache::lookup
lookup(c, name, t) ==
    IF IsSome(c[name]) /\ fresh(Unwrap(c[name]).at, t)
    THEN Some(Unwrap(c[name]).addrs)
    ELSE None

\* ResolverCache::add
add_First(c, name, addrs, t) ==
    IF IsSome(c[name]) THEN c ELSE [c EXCEPT ![name] = Some(Entry(addrs, t))]
add(c, name, addrs, t) == [c EXCEPT ![name] = Some(Entry(addrs, t))]

\* CAresResolverFuture
NoFuture == [kind |-> "None", q |-> 0, name |-> <<>>, vals |-> <<>>]
FromResolver(q, name) == [NoFuture EXCEPT !.kind = "FromResolver", !.q = q,
                                          !.name = name]
FromCache(vals) == [NoFuture EXCEPT !.kind = "FromCache", !.vals = vals]
FutureDone == [NoFuture EXCEPT !.kind = "Done"]

\* a query_a of the underlying resolver: pending, then an answer or an error
Query(name, by) == [name |-> name, by |-> by, state |-> "pending",
                    addrs |-> <<>>]

\* CAresResolverImpl::resolve, called for connection i
resolve_Shared(c, qs, name, t, i) ==
    LET hit == lookup(c, name, t)
        same == {q \in DOMAIN qs : qs[q].name = name /\ qs[q].state = "pending"}
    IN IF IsSome(hit)
       THEN [fut |-> FromCache(Unwrap(hit)), queries |-> qs]
       ELSE IF same # {}
       THEN [fut |-> FromResolver(CHOOSE q \in same : TRUE, name),
             queries |-> qs]
       ELSE [fut |-> FromResolver(Len(qs) + 1, name),
             queries |-> Append(qs, Query(name, i))]
resolve(c, qs, name, t, i) ==
    LET hit == lookup(c, name, t) IN
    IF IsSome(hit)
    THEN [fut |-> FromCache(Unwrap(hit)), queries |-> qs]
    ELSE [fut |-> FromResolver(Len(qs) + 1, name),
          queries |-> Append(qs, Query(name, i))]

\* io::Error: its kind and what it was made from
IoError(kind, source) == [kind |-> kind, source |-> source]
NoError == IoError("none", <<"none", 0>>)

\* Error::new(ErrorKind::Other, Box::new(err))
wrap_Bare(err) == IoError("Other", <<"none", 0>>)
wrap(err) == IoError("Other", err)

\* what a future yields
Resolved(fut, c, kind, vals, err) ==
    [fut |-> fut, cache |-> c, kind |-> kind, vals |-> vals, err |-> err]

\* CAresResolverFuture::poll
ares_poll(fut, c, qs, t) ==
    IF fut.kind = "FromResolver"
    THEN LET q == qs[fut.q] IN
         IF q.state = "ok"
         THEN Resolved(FutureDone, add(c, fut.name, q.addrs, t), "ready",
                       q.addrs, NoError)
         ELSE IF q.state = "err"
         THEN Resolved(FutureDone, c, "err", <<>>, wrap(<<"c-ares", fut.q>>))
         ELSE Resolved(fut, c, "notready", <<>>, NoError)
    ELSE IF fut.kind = "FromCache"
    THEN Resolved(FutureDone, c, "ready", fut.vals, NoError)
    ELSE Resolved(FutureDone, c, "panic", <<>>, NoError)

\* what HttpConnecting::poll returns
HttpUnpolled == [kind |-> "none", addr |-> 0, err |-> NoError]
HttpNotReady == [HttpUnpolled EXCEPT !.kind = "notready"]
HttpReady(a) == [HttpUnpolled EXCEPT !.kind = "ready", !.addr = a]
HttpErr(e) == [HttpUnpolled EXCEPT !.kind = "err", !.err = e]
HttpPanic == [HttpUnpolled EXCEPT !.kind = "panic"]

\* HttpConnecting: state is Lazy, Resolving, Connecting or Error; with it the
\* addresses ConnectingTcp::new was given, the attempts of the ConnectingTcp,
\* how many times resolve was called, and what the last poll returned
HttpConnecting(state, h) ==
    [state |-> state, host |-> h, name |-> h, fut |-> NoFuture,
     tcp |-> ConnectingTcpNew(<<>>, <<>>, FALSE), addrs |-> <<>>,
     att |-> [a \in 1..MaxIp |-> "idle"], started |-> <<>>, seen |-> <<>>,
     resolves |-> 0, hit |-> FALSE, entry |-> FALSE, res |-> HttpUnpolled]
Unborn == HttpConnecting("None", <<>>)

\* HttpConnector::connect
http_connect(enforce_http, dst) ==
    IF enforce_http /\ dst.scheme # Some(Http) THEN HttpConnecting("Error", <<>>)
    ELSE IF ~enforce_http /\ IsNone(dst.scheme)
    THEN HttpConnecting("Error", <<>>)
    ELSE IF IsNone(dst.authority) THEN HttpConnecting("Error", <<>>)
    ELSE HttpConnecting("Lazy", host(dst))

\* state = State::Connecting(ConnectingTcp::new(local_addr, addrs, ..))
on_addrs(c, addrs) ==
    LET s == split_by_preference(addrs) IN
    [c EXCEPT !.state = "Connecting", !.addrs = addrs,
              !.tcp = ConnectingTcpNew(s.preferred, s.fallback, TRUE)]

HttpPolled(c, ch, qs) == [conn |-> c, cache |-> ch, queries |-> qs]

\* if let Some(addrs) = dns::IpAddrs::try_parse(host, self.port)
is_literal_Never(ip) == FALSE
is_literal(ip) == IsSome(ip)

\* HttpConnecting::poll of connection i: the loop; t is Instant::now(), ft
\* the fates of the addresses, so whether the socket options can be set
RECURSIVE http_loop(_, _, _, _, _, _, _)
http_loop(c, ch, qs, t, ft, so, i) ==
    IF c.state = "Lazy"
    THEN LET ip == try_parse(c.host) IN
         IF is_literal(ip)
         THEN http_loop(on_addrs(c, Unwrap(ip)), ch, qs, t, ft, so, i)
         ELSE LET r == resolve(ch, qs, c.host, t, i) IN
              http_loop([c EXCEPT !.state = "Resolving", !.host = <<>>,
                                  !.fut = r.fut, !.resolves = @ + 1,
                                  !.hit = (r.fut.kind = "FromCache"),
                                  !.entry = IsSome(ch[c.host])],
                        ch, r.queries, t, ft, so, i)
    ELSE IF c.state = "Resolving"
    THEN LET r == ares_poll(c.fut, ch, qs, t)
             c2 == [c EXCEPT !.fut = r.fut]
         IN IF r.kind = "err"
            THEN HttpPolled([c2 EXCEPT !.res = HttpErr(r.err)], r.cache, qs)
            ELSE IF r.kind = "notready"
            THEN HttpPolled([c2 EXCEPT !.res = HttpNotReady], r.cache, qs)
            ELSE IF r.kind = "ready"
            THEN http_loop(on_addrs(c2, r.vals), r.cache, qs, t, ft, so, i)
            ELSE HttpPolled([c2 EXCEPT !.res = HttpPanic], r.cache, qs)
    ELSE IF c.state = "Connecting"
    THEN LET p == tcp_poll(ft, c.tcp, c.att, "armed", c.started, c.seen)
             c2 == [c EXCEPT !.tcp = p.tcp, !.att = p.at,
                             !.started = p.started, !.seen = p.seen]
         IN HttpPolled(
                [c2 EXCEPT !.res =
                    IF p.res.kind = "notready" THEN HttpNotReady
                    ELSE IF p.res.kind = "err"
                    THEN HttpErr(IoError("Os", <<"connect", p.res.addr>>))
                    ELSE IF p.res.kind = "panic" THEN HttpPanic
                    ELSE IF so THEN HttpReady(p.res.addr)
                    ELSE HttpErr(IoError("Os", <<"sockopt", 0>>))],
                ch, qs)
    ELSE \* State::Error(e): e.take().expect("polled more than once")
         HttpPolled([c EXCEPT !.res =
                         HttpErr(IoError("InvalidInput", <<"invalid URL", 0>>))],
                    ch, qs)

\* The destinations connect() is called with
HttpDsts == {
    MkUri(Some(Http), Some(HostA), Some(Slash)),
    MkUri(Some(Http), Some(HostB), Some(Slash)),
    MkUri(Some(Http), Some(IpLiteral), Some(Slash)),
    MkUri(Some(Https), Some(HostA), Some(Slash)) }

\* The answers of the underlying resolver: the first k addresses
Answers == {Range(1, k) : k \in 0..MaxIp}
\* The fates of the addresses: that of the first varies
HttpFates == {[a \in 1..MaxIp |-> IF a = 1 THEN x ELSE "ok"] : x \in Fates}
\* Two connect() calls on one HttpConnector, the second at any moment of
\* the first
Conns == {1, 2}

HttpStart(cs, fates) ==
    /\ now = 0
    /\ cache = CacheEmpty
    /\ queries = <<>>
    /\ conn = [i \in cs |-> Unborn]
    /\ hfate \in fates

HttpLiveConn(i) == conn[i].res.kind \in {"none", "notready"}

\* connector.connect(dst): the connections are numbered as they are made
HttpConnect ==
    /\ \E i \in DOMAIN conn, dst \in HttpDsts :
         /\ conn[i].state = "None"
         /\ \A j \in 1..(i - 1) : conn[j].state # "None"
         /\ conn' = [conn EXCEPT ![i] = http_connect(TRUE, dst)]
    /\ UNCHANGED <<now, cache, queries, hfate>>
    /\ UNCHANGED <<dstVars, bodyVars, parseVars, pipeVars, tcpVars, proxyVars,
                 tunVars>>

\* the task of a connection polls its HttpConnecting
HttpPoll ==
    /\ \E i \in DOMAIN conn, so \in BOOLEAN :
         /\ conn[i].state # "None" /\ HttpLiveConn(i)
         /\ LET r == http_loop(conn[i], cache, queries, now, hfate, so, i) IN
            /\ conn' = [conn EXCEPT ![i] = r.conn]
            /\ cache' = r.cache
            /\ queries' = r.queries
    /\ UNCHANGED <<now, hfate>>
    /\ UNCHANGED <<dstVars, bodyVars, parseVars, pipeVars, tcpVars, proxyVars,
                 tunVars>>

\* a query of the underlying resolver completes
QueryDone(ok) ==
    /\ \E q \in DOMAIN queries :
         /\ queries[q].state = "pending"
         /\ IF ok
            THEN \E ans \in Answers :
                    queries' = [queries EXCEPT ![q].state = "ok",
                                               ![q].addrs = ans]
            ELSE queries' = [queries EXCEPT ![q].state = "err"]
    /\ UNCHANGED <<now, cache, conn, hfate>>
    /\ UNCHANGED <<dstVars, bodyVars, parseVars, pipeVars, tcpVars, proxyVars,
                 tunVars>>

QueryAnswers == QueryDone(TRUE)
QueryFails == QueryDone(FALSE)

\* a pending connect attempt of a connection completes
HttpComplete ==
    /\ \E i \in DOMAIN conn, a \in 1..MaxIp :
         /\ HttpLiveConn(i)
         /\ conn[i].att[a] = "pending"
         /\ conn' = [conn EXCEPT ![i].att[a] =
                         IF hfate[a] = "ok" THEN "ok" ELSE "err"]
    /\ UNCHANGED <<now, cache, queries, hfate>>
    /\ UNCHANGED <<dstVars, bodyVars, parseVars, pipeVars, tcpVars, proxyVars,
                 tunVars>>

\* the clock moves on
Tick ==
    /\ now < MaxClock
    /\ now' = now + 1
    /\ UNCHANGED <<cache, queries, conn, hfate>>
    /\ UNCHANGED <<dstVars, bodyVars, parseVars, pipeVars, tcpVars, proxyVars,
                 tunVars>>

HttpNext == HttpConnect \/ HttpPoll \/ QueryAnswers \/ QueryFails
                \/ HttpComplete \/ Tick

-----------------------------------------------------------------------------
(* Specifications: one per component, the others held at their start.      *)

DestIdle == DestStart({UriDefault})
BodyIdle == BodyStart({None}, {None}, FALSE)

ParseBuilds(builds) == ParseStart({[code |-> Some(200), tok |-> FmtNat(200)]},
                                  {Some(<<"O", "K">>)}, {}, 0, builds)
ParseIdle == ParseBuilds({TRUE})
PipeIdle == PipeStart({ReqDefault}, {RespDefault})
TcpIdle == TcpStart(0)
ProxyIdle == ProxyStart({}, 0, {UriDefault}, {FALSE})
TunnelIdle == TunnelStart({443}, {}, 0, {Reply(Version11, 200, None, <<>>, <<>>)})
HttpIdle == HttpStart({}, {<<>>})

InitDest == DestStart(InitialUris) /\ BodyIdle /\ ParseIdle /\ PipeIdle
                /\ TcpIdle /\ ProxyIdle /\ TunnelIdle /\ HttpIdle
SpecDest == InitDest /\ [][DestNext]_vars

InitBody == BodyStart(RestArgs, LenArgs, TRUE) /\ DestIdle /\ ParseIdle
                /\ PipeIdle /\ TcpIdle /\ ProxyIdle /\ TunnelIdle /\ HttpIdle
SpecBody == InitBody /\ [][BodyNext]_vars

InitParse == /\ \/ ParseStart(CodeTokens, Reasons, HeaderLines, MaxHeaders,
                               BOOLEAN)
                \/ ParseOdd(OddStatusLines, BOOLEAN)
             /\ DestIdle /\ BodyIdle /\ PipeIdle /\ TcpIdle /\ ProxyIdle
             /\ TunnelIdle /\ HttpIdle
SpecParse == InitParse /\ [][ParseNext]_vars

\* a request of any shape with the plain response, or the plain request with
\* a response of any shape or with the long response
InitPipe == /\ \/ PipeStart(Requests, {RespDefault}) /\ ParseIdle
               \/ PipeStart({ReqDefault}, Responses) /\ ParseBuilds(BOOLEAN)
               \/ PipeStart({ReqDefault}, {RespLong}) /\ ParseIdle
            /\ DestIdle /\ BodyIdle /\ TcpIdle /\ ProxyIdle /\ TunnelIdle /\ HttpIdle
SpecPipe == InitPipe /\ [][PipeNext]_vars

\* the hand-off from request() to the Body: the plain request, which has no
\* body, with a response of any shape, then the caller polls the Body
HandoffNext == \/ ConnectOk \/ ConnectFails \/ WriteHeaderOk \/ WriteHeaderFails
               \/ ReadSome \/ ReadZero \/ ReadFails \/ PollResponse
InitHandoff == /\ PipeStart({ReqDefault}, Responses) /\ ParseBuilds(BOOLEAN)
               /\ DestIdle /\ BodyIdle /\ TcpIdle /\ ProxyIdle /\ TunnelIdle
               /\ HttpIdle
SpecHandoff == InitHandoff /\ [][HandoffNext]_vars

\* the receive loop: a request with any body and the plain response, or the
\* plain request with a 200 response of any headers and tail or the long
\* response, in one build; the transport keeps making progress, so a read
\* that is awaited completes
InitPipeLive == /\ \/ PipeStart({r \in Requests : r.uri = ReqDefault.uri
                                      /\ r.headers = ReqDefault.headers},
                                 {RespDefault})
                   \/ PipeStart({ReqDefault},
                                 {g \in Responses : g.code = RespDefault.code}
                                     \cup {RespLong})
                /\ ParseIdle /\ DestIdle /\ BodyIdle /\ TcpIdle /\ ProxyIdle
                /\ TunnelIdle /\ HttpIdle
SpecPipeLive == InitPipeLive /\ [][PipeNext]_vars
                    /\ WF_vars(ReadFails \/ ReadZero \/ ReadSome)

InitTcp == TcpStart(MaxAddrs) /\ DestIdle /\ BodyIdle /\ ParseIdle /\ PipeIdle
               /\ ProxyIdle /\ TunnelIdle /\ HttpIdle
SpecTcp == InitTcp /\ [][TcpNext]_vars
\* the task is polled again after a wake-up, a pending connect attempt
\* completes, and the timer of the delay elapses or fails
SpecTcpLive == SpecTcp /\ WF_vars(TcpPoll) /\ WF_vars(Complete)
                   /\ WF_vars(TimerFires \/ TimerFails)

InitProxy == ProxyStart(ProxySet, MaxProxies, ProxyDsts, BOOLEAN)
                 /\ DestIdle /\ BodyIdle /\ ParseIdle /\ PipeIdle /\ TcpIdle
                 /\ TunnelIdle /\ HttpIdle
SpecProxy == InitProxy /\ [][ProxyNext]_vars

InitTunnel == TunnelStart({80, 443}, TunnelHeaders, MaxTunnelHeaders,
                          TunnelReplies)
                  /\ DestIdle /\ BodyIdle /\ ParseIdle /\ PipeIdle /\ TcpIdle
                  /\ ProxyIdle /\ HttpIdle
SpecTunnel == InitTunnel /\ [][TunnelNext]_vars

InitHttp == HttpStart(Conns, HttpFates)
                /\ DestIdle /\ BodyIdle /\ ParseIdle /\ PipeIdle /\ TcpIdle
                /\ ProxyIdle /\ TunnelIdle
SpecHttp == InitHttp /\ [][HttpNext]_vars

Init == InitDest \/ InitBody \/ InitParse \/ InitPipe \/ InitTcp
            \/ InitProxy \/ InitTunnel \/ InitHttp \/ InitHandoff
Next == DestNext \/ BodyNext \/ ParseNext \/ PipeNext \/ TcpNext
            \/ ProxyNext \/ TunnelNext \/ HttpNext \/ HandoffNext
Spec == Init /\ [][Next]_vars

-----------------------------------------------------------------------------
(* Destination claims *)

\* C1: after set_scheme or set_host returns, either the call succeeded and
\* scheme() / host() returns the argument, or it returned Parse and the URI
\* equals its value before the call.
C1_SetSchemeHostAllOrNothing ==
    call.op \in {"set_scheme", "set_host"} =>
        \/ /\ call.res = "ok"
           /\ call.op = "set_scheme" => scheme(uri) = call.arg
           /\ call.op = "set_host" => host(uri) = call.arg
        \/ /\ call.res = "parse"
           /\ uri = call.pre

\* C2: set_port ends either fully applied or with a Parse error and the
\* Destination unchanged; it never ends in a panic.
C2_SetPortAllOrNothing ==
    call.op = "set_port" =>
        \/ call.res = "ok" /\ port(uri) = call.arg
        \/ call.res = "parse" /\ uri = call.pre

\* C3: set_host with an '@' in the argument returns Parse and leaves the
\* Destination unchanged, and no sequence of calls gives the authority a
\* user-info it did not start with.
C3_NoUserInfoInjected ==
    /\ (call.op = "set_host" /\ Contains(call.arg, "@")) =>
           (call.res = "parse" /\ uri = call.pre)
    /\ HasUserInfo(uri) => HasUserInfo(uri0)

C3_Witness ==
    /\ call.op = "set_host"
    /\ Contains(call.arg, "@")
    /\ call.res = "parse"
    /\ IsSome(call.pre.authority)
    /\ ~HasUserInfo(uri0)
    /\ uri # uri0

-----------------------------------------------------------------------------
(* Body claims *)

ContentLength == Unwrap(body.content_length)

\* C4: a Body with content_length = L and no rest, whose reads succeed and sum
\* to more than L, yields exactly L bytes in total, ends with end-of-stream,
\* and no poll up to the end of the stream aborts.
C4_ExactlyContentLength ==
    (IsSome(body.content_length) /\ IsNone(rest0)
        /\ \A i \in 1..Len(out) : out[i].kind # "err") =>
        /\ \A k \in 1..Len(rets) :
               (\A j \in 1..(k - 1) : rets[j] # "eos") => rets[k] # "panic"
        /\ Delivered(out) <= ContentLength
        /\ (reader.pos > ContentLength /\ last = "eos") =>
               Delivered(out) = ContentLength

\* C5: with content_length = L the Body never delivers more than L bytes,
\* rest included; when rest is longer than L it yields exactly the first L
\* bytes of rest.
C5_RestCountsTowardsLength ==
    IsSome(body.content_length) =>
        /\ Delivered(out) <= ContentLength
        /\ (RestLen(rest0) > ContentLength /\ polls >= 1) =>
               Flat(out) = Range(1, ContentLength)

\* C6: a non-drained Body built with rest = Some(bytes) yields exactly those
\* bytes as the first chunk without reading, clears rest, never yields rest
\* again, and reads only on later polls.
C6_RestFirstOnce ==
    IsSome(rest0) =>
        /\ reads <= (IF polls = 0 THEN 0 ELSE polls - 1)
        /\ polls = 0 => (out = <<>> /\ body.rest = rest0)
        /\ polls >= 1 =>
              /\ out # <<>>
              /\ out[1] = Item("chunk", "rest", Unwrap(rest0))
              /\ IsNone(body.rest)
              /\ \A i \in 2..Len(out) : out[i].src # "rest"

C6_Witness ==
    /\ rest0 = Some(Range(1, 2))
    /\ polls >= 3
    /\ reads >= 2
    /\ Len(out) >= 3
    /\ out[2].src = "read"

\* C7: drained is set when a read fails and when the delivered byte count
\* reaches content_length, and after either no further chunk, error item or
\* read occurs.
C7_DrainedIsFinal ==
    /\ Ended(body, out) => body.drained
    /\ IsSome(mark) => /\ reads = Unwrap(mark).reads
                       /\ Len(out) = Unwrap(mark).items

-----------------------------------------------------------------------------
(* Wire parser claims *)

\* A code token of exactly three digits denoting a value in 100..599
ValidCodeToken(t) ==
    /\ Len(t) = 3
    /\ t[1] \in {"1", "2", "3", "4", "5"}
    /\ IsDigit(t[2])
    /\ IsDigit(t[3])

\* s without its leading and trailing spaces
RECURSIVE StripLeft(_)
StripLeft(s) == IF s # <<>> /\ Head(s) = SP THEN StripLeft(Tail(s)) ELSE s
RECURSIVE StripRight(_)
StripRight(s) == IF s # <<>> /\ s[Len(s)] = SP
                 THEN StripRight(SubSeq(s, 1, Len(s) - 1)) ELSE s
Strip(s) == StripLeft(StripRight(s))

\* C8: for "HTTP/1.0 <code> <reason>" with code in 100..599 and any reason
\* phrase, the first item is Status with that code and the whole reason.
C8_StatusCodeAndWholeReason ==
    (IsSome(gen.code) /\ IsSome(gen.reason) /\ items # <<>>) =>
        (Unwrap(gen.code) \in 100..599 =>
            /\ items[1].kind = "Status"
            /\ items[1].code = Unwrap(gen.code)
            /\ items[1].b = Unwrap(gen.reason))

\* C9: a status line whose code token is not exactly three digits denoting a
\* value in 100..599 fails with WrongStatusCode; no Status item is produced.
C9_BadCodeIsWrongStatusCode ==
    (~ValidCodeToken(gen.tok) /\ items # <<>>) =>
        /\ items[1].kind = "WrongStatusCode"
        /\ \A i \in 1..Len(items) : items[i].kind # "Status"

\* The block is a valid status line followed by well-formed name: value lines
WellFormedBlock ==
    /\ ValidCodeToken(gen.tok)
    /\ IsSome(gen.reason)
    /\ ~Contains(Unwrap(gen.reason), SP)
    /\ \A i \in 1..Len(gen.hdrs) :
          /\ IsSome(gen.hdrs[i].value)
          /\ ~Contains(Unwrap(gen.hdrs[i].value), ":")

\* C10: a valid status line and N well-formed header lines yield the Status
\* item, then N Header items in line order, each name and value with exactly
\* its leading and trailing spaces removed, then the iterator ends.
C10_HeadersInOrderTrimmed ==
    WellFormedBlock =>
        /\ pstate # "panic"
        /\ items # <<>> => items[1].kind = "Status"
        /\ \A i \in 2..Len(items) :
              items[i] = Header(Strip(gen.hdrs[i - 1].name),
                                Strip(Unwrap(gen.hdrs[i - 1].value)))
        /\ pstate = "end" => Len(items) = Len(gen.hdrs) + 1

\* C11: a header line is split at its first ':' only: a line with a ':' whose
\* name and value do not end in a space yields Header whose value is
\* everything after the first ':' (leading spaces removed), further ':'
\* included; a line with no ':' yields WrongHeader.
C11_SplitAtFirstColonOnly ==
    \A i \in 2..Len(items) :
        LET h == gen.hdrs[i - 1] IN
        /\ IsNone(h.value) => items[i].kind = "WrongHeader"
        /\ (IsSome(h.value) /\ StripRight(Unwrap(h.value)) = Unwrap(h.value)
               /\ Unwrap(h.value) # <<>> /\ StripRight(h.name) = h.name)
             => items[i] = Header(Strip(h.name), StripLeft(Unwrap(h.value)))

-----------------------------------------------------------------------------
(* Client pipeline claims *)

\* the lines of a block of bytes: the parts between \r\n
RECURSIVE LinesOf(_)
LinesOf(s) == IF CrlfPos(s) < 0 THEN <<s>>
              ELSE <<SubSeq(s, 1, CrlfPos(s))>>
                       \o LinesOf(SubSeq(s, CrlfPos(s) + 3, Len(s)))

\* the line is a header named Host, in any case
IsHostLine(l) == Contains(l, ":")
                 /\ to_lowercase(Strip(Split(l, ":")[1])) = <<"h", "o", "s", "t">>

\* "name: value\r\n" of every header whose name is not Host in any case
RECURSIVE KeptHeaders(_)
KeptHeaders(hs) ==
    IF hs = <<>> THEN <<>>
    ELSE (IF to_lowercase(Head(hs)[1]) = to_lowercase(<<"H", "O", "S", "T">>)
          THEN <<>>
          ELSE Head(hs)[1] \o <<":", SP>> \o Head(hs)[2] \o <<CR, LF>>)
         \o KeptHeaders(Tail(hs))

\* the head of the request as the wire format describes it
ExpectedHead ==
    req.method \o <<SP>>
        \o (IF IsSome(req.uri.path) /\ Unwrap(req.uri.path) # <<>>
            THEN Unwrap(req.uri.path) ELSE <<"/">>)
        \o <<SP>> \o Version10 \o <<CR, LF>>
        \o <<"H", "o", "s", "t", ":", SP>> \o host(req.uri) \o <<CR, LF>>
        \o <<"C", "o", "n", "n", "e", "c", "t", "i", "o", "n", ":", SP,
             "c", "l", "o", "s", "e", CR, LF>>
        \o KeptHeaders(req.headers)
        \o <<CR, LF>>

\* C12: the first write is exactly the request line, "Host: <URI host>",
\* "Connection: close", the caller's headers in order without those named
\* Host in any case, and an empty line; exactly one line of it is a Host
\* header and it carries the URI host, whatever the caller supplied.
C12_HeadOnTheWire ==
    wire # <<>> =>
        /\ wire[1] = ExpectedHead
        /\ LET ls == LinesOf(wire[1]) IN
           \A i \in 1..Len(ls) :
               IsHostLine(ls[i]) =>
                   ls[i] = <<"H", "o", "s", "t", ":", SP>> \o host(req.uri)

\* C13: when the terminator was found and parsing succeeded, the status
\* extracted is the code of the status line, the reason extracted is its
\* reason phrase, and the header list holds the header lines in order, names
\* lowercased.
C13_ExtractedStatusReasonHeaders ==
    resp.kind = "ok" =>
        /\ resp.status = Unwrap(srv.code)
        /\ resp.reason = Unwrap(srv.reason)
        /\ Len(resp.headers) = Len(srv.hdrs)
        /\ \A i \in 1..Len(srv.hdrs) :
              resp.headers[i] = <<to_lowercase(Strip(srv.hdrs[i].name)),
                                  Strip(Unwrap(srv.hdrs[i].value))>>

\* C14: a read of zero bytes before \r\n\r\n has appeared in the accumulated
\* bytes makes request() fail with "Broken headers" and no Response; a
\* Response is produced only once the accumulated bytes hold the terminator.
C14_BrokenHeaders ==
    /\ zero_read => resp = Failed("Broken headers")
    /\ resp.kind = "ok" => (TerminatorPos(buf) >= 0 /\ ~zero_read)
    /\ (pc = "read" /\ TerminatorPos(buf) < 0) => resp.kind # "ok"

\* the server closed after part of the header block and request() failed
C14_Witness ==
    /\ zero_read /\ buf # <<>> /\ TerminatorPos(buf) < 0
    /\ resp = Failed("Broken headers")

-----------------------------------------------------------------------------
(* TCP connector claims *)

InPreferred(a) == a \in 1..Len(batches.preferred)
InFallback(a) == a > Len(batches.preferred) /\ a \in DOMAIN fate

\* a fallback timeout, every preferred address failing, and a fallback
\* address that connects
EyeballsCase ==
    /\ batches.timeout
    /\ batches.preferred # <<>>
    /\ \A a \in DOMAIN fate : InPreferred(a) => fate[a] # "ok"
    /\ \E a \in DOMAIN fate : InFallback(a) /\ fate[a] = "ok"

\* C15: with a fallback timeout, a preferred batch whose addresses all fail
\* and a fallback batch holding an address that connects, the connector
\* eventually returns the stream of a fallback address, whether the preferred
\* batch fails before or after the delay fires, and it never returns an error
\* of the preferred batch.
C15_FallbackWins ==
    /\ EyeballsCase ~> (\/ tcp_res.kind = "ready" /\ InFallback(tcp_res.addr)
                        \/ delay = "failed")
    /\ [](EyeballsCase /\ delay # "failed"
             => ~(tcp_res.kind = "err" /\ InPreferred(tcp_res.addr)))

\* C16: when every address of both batches fails, the connector fails and
\* the error it returns is that of the attempt that failed last; the errors
\* of the attempts before it are dropped.
C16_LastErrorReported ==
    (DOMAIN fate # {} /\ \A a \in DOMAIN fate : fate[a] # "ok") =>
        /\ tcp_res.kind \notin {"ready", "panic"}
        /\ tcp_res.kind = "err" =>
              /\ seen # <<>>
              /\ tcp_res.addr = seen[Len(seen)]

\* the fallback batch failed while the preferred one was pending, then the
\* preferred batch failed
C16_Witness ==
    /\ tcp_res.kind = "err"
    /\ batches.timeout /\ batches.fallback # <<>>
    /\ \A a \in DOMAIN fate : fate[a] # "ok"
    /\ \E i, j \in 1..Len(seen) :
          i < j /\ InFallback(seen[i]) /\ InPreferred(seen[j])
    /\ InPreferred(tcp_res.addr)

-----------------------------------------------------------------------------
(* Proxy connector claims *)

\* proxy i intercepts the destination
Hit(i) == matches(proxies[i].intercept, DstOfDestination(pdst))
\* the first proxy in list order that intercepts it, 0 when none does
FirstHit == IF \E i \in 1..Len(proxies) : Hit(i)
            THEN CHOOSE i \in 1..Len(proxies) :
                     Hit(i) /\ \A j \in 1..(i - 1) : ~Hit(j)
            ELSE 0

\* d names the scheme, host and port of the proxy URI u
AtProxy(d, u) ==
    /\ scheme(d) = scheme(u)
    /\ host(d) = host(u)
    /\ port(d) = port(u)

\* C17: connect(dst) uses the first proxy in list order whose Intercept
\* matches dst, also when later proxies match; when none matches, the inner
\* connector is called once with dst unmodified, no tunnel or TLS step runs
\* and the result is not tagged proxied.
C17_FirstMatchOrDirect ==
    ppc # "new" =>
        /\ psel = FirstHit
        /\ (FirstHit # 0 /\ plog # <<>>) =>
               AtProxy(plog[1].dst, proxies[FirstHit].uri)
        /\ FirstHit = 0 =>
               /\ plog = <<InnerCall(pdst)>>
               /\ pres.kind = "ok" => ~pres.connected.is_proxied

\* two different proxies intercept the destination and the connect went
\* through the first
C17_Witness ==
    /\ Len(proxies) = 2 /\ Hit(1) /\ Hit(2)
    /\ proxies[1].uri # proxies[2].uri
    /\ pres.kind = "ok"
    /\ AtProxy(plog[1].dst, proxies[1].uri)

\* the steps of a connect to an https destination through a proxy
TunnelSteps ==
    << "inner", "tunnel" >> \o (IF tls THEN << "tls" >> ELSE << >>)

\* C18: with a matching proxy and an https dst the steps are, in this order
\* and each only after the one before succeeded: the inner connect to the
\* proxy's scheme, host and port, the CONNECT tunnel for the original host
\* and port (443 when dst has none), and, only with TLS configured, the TLS
\* handshake for the original host; a failed step ends the connect; the
\* transport yielded is tagged proxied.
C18_TunnelThenTls ==
    (ppc # "new" /\ psel # 0 /\ scheme(pdst) = Https) =>
        /\ Len(plog) <= Len(TunnelSteps)
        /\ \A k \in 1..Len(plog) : plog[k].ev = TunnelSteps[k]
        /\ Len(plog) >= 1 => AtProxy(plog[1].dst, proxies[psel].uri)
        /\ Len(plog) >= 2 =>
              /\ plog[2].host = host(pdst)
              /\ plog[2].port = (IF IsSome(port(pdst))
                                 THEN Unwrap(port(pdst)) ELSE 443)
              /\ plog[2].headers = proxies[psel].headers
        /\ Len(plog) >= 3 => plog[3].host = host(pdst)
        /\ pres.kind # "none" => ppc = "done"
        /\ pres.kind = "ok" =>
              /\ Len(plog) = Len(TunnelSteps)
              /\ pres.connected.is_proxied
              /\ pres.stream = (IF tls THEN "Secured" ELSE "Regular")

\* an https destination with no port went through a proxy with TLS
C18_Witness ==
    /\ psel # 0 /\ scheme(pdst) = Https /\ tls /\ IsNone(port(pdst))
    /\ pres.kind = "ok"
    /\ Len(plog) = 3
    /\ host(proxies[psel].uri) # host(pdst)

\* C19: with a matching proxy and a dst whose scheme is not https, the inner
\* connector is asked for the proxy's scheme, host and port, no CONNECT
\* tunnel is run, and the connection metadata yielded is tagged proxied.
C19_PlainThroughProxy ==
    (ppc # "new" /\ psel # 0 /\ scheme(pdst) # Https) =>
        /\ \A k \in 1..Len(plog) : plog[k].ev = "inner"
        /\ Len(plog) <= 1
        /\ plog # <<>> => AtProxy(plog[1].dst, proxies[psel].uri)
        /\ pres.kind = "ok" => pres.connected.is_proxied

\* C20: http_headers(uri) returns the headers of the first proxy matching
\* uri when the scheme of uri is exactly "http" and a proxy matches, None in
\* every other case; the proxy is the one connect() selects.
C20_HttpHeaders ==
    IsSome(hh) =>
        /\ Unwrap(hh) = (IF pdst.scheme = Some(<<"h", "t", "t", "p">>)
                            /\ FirstHit # 0
                         THEN Some(proxies[FirstHit].headers) ELSE None)
        /\ (IsSome(Unwrap(hh)) /\ ppc # "new") =>
               /\ psel # 0
               /\ Unwrap(Unwrap(hh)) = proxies[psel].headers

\* two proxies with different headers match an http URI; http_headers was
\* called and connect() ran
C20_Witness ==
    /\ IsSome(hh) /\ IsSome(Unwrap(hh))
    /\ Len(proxies) = 2 /\ Hit(1) /\ Hit(2)
    /\ proxies[1].headers # proxies[2].headers
    /\ ppc = "done" /\ pres.kind = "ok"

-----------------------------------------------------------------------------
(* The proxy tunnel (proxy/tunnel.rs)                                      *)

Begins(s, p) == Len(s) >= Len(p) /\ \A i \in 1..Len(p) : s[i] = p[i]
Ends(s, p) ==
    Len(s) >= Len(p) /\ \A i \in 1..Len(p) : s[Len(s) - Len(p) + i] = p[i]
Is200(s) ==
    \/ Begins(s, <<"H", "T", "T", "P", "/", "1", ".", "1", " ", "2", "0", "0">>)
    \/ Begins(s, <<"H", "T", "T", "P", "/", "1", ".", "0", " ", "2", "0", "0">>)
EndsBlank(s) == Ends(s, <<"\r", "\n", "\r", "\n">>)

\* C21: the tunnel completes successfully only when the bytes accumulated
\* since entering Reading start with "HTTP/1.1 200" or "HTTP/1.0 200" and
\* end with \r\n\r\n; it then returns the transport it was given and the
\* connection metadata marked proxied; and when the proxy's reply is a 200
\* header block ending with \r\n\r\n, the tunnel has completed successfully
\* once the whole reply was read, however the reads split it.
C21_TunnelSuccess ==
    /\ tres.kind = "ready" =>
           /\ tun.state = "Reading"
           /\ tun.buf = SubSeq(tsrv, 1, tgot)
           /\ Is200(tun.buf) /\ EndsBlank(tun.buf)
           /\ tres.stream = tin.stream
           /\ tres.connected = [tin.connected EXCEPT !.is_proxied = TRUE]
    /\ (Is200(tsrv) /\ EndsBlank(tsrv) /\ tgot = Len(tsrv)) =>
           tres.kind = "ready"

\* a reply "HTTP/1.0 200 OK", a header, the empty line: the tunnel is ready
C21_Witness ==
    /\ tres.kind = "ready"
    /\ Begins(tsrv, <<"H", "T", "T", "P", "/", "1", ".", "0">>)
    /\ Len(tsrv) > 19
    /\ Len(tin.headers) = 1

\* C22: when the reply does not begin with "HTTP/1.1 200" or "HTTP/1.0 200",
\* the tunnel fails with "unsuccessful tunnel" as soon as more than 12 bytes
\* of it are buffered, terminator or not; it never completes successfully
\* for such a reply; and after the failure nothing more is written or read.
C22_UnsuccessfulTunnel ==
    /\ [](/\ (tun.state = "Reading" /\ Len(tun.buf) > 12 /\ ~Is200(tun.buf))
                => tres = TunnelErr("unsuccessful tunnel")
          /\ (tres.kind = "ready" => Is200(tsrv)))
    /\ [][tres.kind = "err" => UNCHANGED tunVars]_vars

\* the tunnel has failed on the 13 bytes "HTTP/1.1 407\r"
C22_Witness ==
    /\ tres = TunnelErr("unsuccessful tunnel")
    /\ Len(tun.buf) = 13
    /\ ~EndsBlank(tun.buf)
    /\ tgot < Len(tsrv)

\* the request tunnel::new serialized for this tunnel
TunnelRequest == tunnel_new(tin.host, tin.port, tin.headers).buf

\* C29: the tunnel starts in Writing and is in Reading exactly when the whole
\* CONNECT request has been written; nothing is read before that; the state
\* never returns to Writing and nothing is written in Reading; the bytes on
\* the wire are at every moment the first bytes of the serialized request,
\* so a partial write resumes at the first unwritten byte.
C29_WritingThenReading ==
    /\ [](tres.kind # "panic" =>
            /\ twire = SubSeq(TunnelRequest, 1, Len(twire))
            /\ Len(twire) <= Len(TunnelRequest)
            /\ (tun.state = "Reading") = (twire = TunnelRequest)
            /\ tun.state = "Writing" => tgot = 0)
    /\ [][tun.state = "Reading" =>
              tun'.state = "Reading" /\ twire' = twire]_vars

\* the request, with a proxy header, is on the wire and part of the reply
\* has been read
C29_Witness ==
    /\ tun.state = "Reading"
    /\ twire = TunnelRequest
    /\ Len(tin.headers) = 1
    /\ tgot > 0 /\ tres.kind = "notready"

\* C30: a zero-length write while request bytes are unwritten, and a
\* zero-length read in Reading, make the tunnel fail with the unexpected-EOF
\* error of that state; the tunnel is never ready after either.
C30_UnexpectedEof ==
    tzero =>
        /\ tres.kind = "err"
        /\ tun.state = "Writing" =>
               /\ tres.msg = "unexpected EOF while tunnel writing"
               /\ Len(twire) < Len(TunnelRequest)
        /\ tun.state = "Reading" =>
               tres.msg = "unexpected EOF while tunnel reading"

\* the read returned 0 after "HTTP/1.1 200 OK\r\n" had been buffered
C30_Witness ==
    /\ tzero /\ tun.state = "Reading"
    /\ Is200(tun.buf) /\ Len(tun.buf) > 12
    /\ tres.kind = "err"

-----------------------------------------------------------------------------
(* The TCP connector, continued (http/mod.rs)                              *)

\* a fallback timeout is configured and the fallback batch is not empty
Armed == batches.timeout /\ batches.fallback # <<>>

IsStarted(a) == \E j \in 1..Len(started) : started[j] = a
WasSeen(a) == \E j \in 1..Len(seen) : seen[j] = a

\* the poll of the preferred batch has returned an error: the attempt to its
\* last address was seen to fail, or connect() failed for one of its addresses
PreferredFailed ==
    \E a \in 1..Len(batches.preferred) :
        WasSeen(a) /\ (a = Len(batches.preferred) \/ fate[a] = "nostart")
FallbackFailed ==
    \E a \in DOMAIN fate :
        InFallback(a) /\ WasSeen(a)
            /\ (a = Len(fate) \/ fate[a] = "nostart")

\* C25 as stated: with a fallback timeout and a fallback batch, no attempt to
\* a fallback address is started before the delay timer has fired.
C25_NoFallbackBeforeTimer ==
    (Armed /\ delay # "fired") => \A a \in DOMAIN fate :
                                      IsStarted(a) => InPreferred(a)

\* C25 as amended: an attempt to a fallback address is started before the
\* delay timer has fired only by the poll in which the preferred batch has
\* failed, or after it.
C25_FallbackAfterTimerOrFailure ==
    [][(Armed /\ delay # "fired") =>
           \A a \in DOMAIN fate :
               (InFallback(a) /\ ~IsStarted(a) /\ IsStarted(a)')
                   => (PreferredFailed' /\ promoted')]_vars

\* the timer is armed, the preferred batch has failed and a fallback address
\* has been attempted
C25_Witness ==
    /\ Armed /\ delay = "armed"
    /\ PreferredFailed
    /\ \E a \in DOMAIN fate : InFallback(a) /\ IsStarted(a)
    /\ \A a \in DOMAIN fate : fate[a] # "nostart"

\* C26: at most one stream is returned, that of the side whose attempt was
\* the first seen to complete; once the fallback side has become the
\* preferred one, no address of the former preferred side is started or
\* polled again, and when the promoted side fails the connector fails.
C26_OneWinner ==
    /\ [](/\ Cardinality({a \in DOMAIN fate :
                             att[a] = "done" /\ fate[a] = "ok"}) <= 1
          /\ tcp_res.kind = "ready" =>
                 /\ att[tcp_res.addr] = "done" /\ fate[tcp_res.addr] = "ok"
                 /\ (Armed /\ InFallback(tcp_res.addr)) => promoted
          /\ promoted =>
                 /\ Armed /\ IsNone(tcp.fallback)
                 /\ tcp_res.kind = "ready" => InFallback(tcp_res.addr)
                 /\ FallbackFailed => tcp_res.kind = "err"
                 /\ tcp_res.kind = "err" => InFallback(tcp_res.addr))
    /\ [][promoted =>
              \A a \in DOMAIN fate :
                  InPreferred(a) =>
                      /\ IsStarted(a)' => IsStarted(a)
                      /\ att[a] # "done" => att'[a] # "done"]_vars

\* the fallback side won while an attempt of the preferred side was pending
C26_Witness ==
    /\ promoted /\ tcp_res.kind = "ready"
    /\ InFallback(tcp_res.addr)
    /\ \E a \in DOMAIN fate : InPreferred(a) /\ att[a] = "pending"

\* C27: in a single batch the addresses are attempted in resolver order, each
\* at most once and one at a time, and the batch reports a failure only after
\* every address of it has been attempted and has failed, whether an
\* address fails when its attempt is started or when it is polled.
C27_BatchExhausted ==
    ~Armed =>
        /\ \A i, j \in 1..Len(started) : i < j => started[i] < started[j]
        /\ Cardinality({a \in DOMAIN fate : att[a] \in {"pending", "ok", "err"}})
               <= 1
        /\ tcp_res.kind = "err" =>
               \A a \in DOMAIN fate : IsStarted(a) /\ WasSeen(a)

-----------------------------------------------------------------------------
(* The caching resolver and HttpConnecting (http/ares.rs, http/mod.rs)     *)

Born == {i \in DOMAIN conn : conn[i].state # "None"}
QueriesBy(i) == {q \in DOMAIN queries : queries[q].by = i}
Untouched(i) ==
    /\ conn[i].started = <<>>
    /\ \A a \in DOMAIN conn[i].att : conn[i].att[a] = "idle"

C24_ResolveError ==
    /\ [](\A i \in Born :
            (conn[i].state = "Resolving" /\ conn[i].res.kind = "err") =>
                /\ \A q \in QueriesBy(i) :
                       /\ queries[q].state = "err"
                       /\ conn[i].res.err =
                              [kind |-> "Other", source |-> <<"c-ares", q>>]
                /\ QueriesBy(i) # {}
                /\ Untouched(i))
    /\ [][\A i \in Born :
            (/\ conn[i].state = "Resolving"
             /\ conn[i].fut.kind = "FromResolver"
             /\ queries[conn[i].fut.q].state = "err"
             /\ conn'[i] # conn[i])
                => /\ conn'[i].res.kind = "err"
                   /\ conn'[i].state = "Resolving"
                   /\ cache' = cache]_vars

\* the resolution of a name failed for one connection while the cache held
\* an entry for that name from the other
C24_Witness ==
    \E i \in Born :
        /\ conn[i].state = "Resolving" /\ conn[i].res.kind = "err"
        /\ IsSome(cache[conn[i].name])

Rank(s) == IF s = "Lazy" THEN 1 ELSE IF s = "Resolving" THEN 2
           ELSE IF s = "Connecting" THEN 3 ELSE 4

\* C28: HttpConnecting moves only forward through Lazy, Resolving and
\* Connecting; a host that is an IP literal goes from Lazy to Connecting
\* with no resolve call, any other host makes exactly one resolve call and
\* enters Resolving; no TCP connect attempt is started before Connecting.
C28_ForwardOnly ==
    /\ [](\A i \in Born :
            LET c == conn[i] IN
            /\ c.state = "Lazy" => (c.resolves = 0 /\ c.res.kind = "none")
            /\ c.state = "Resolving" => c.name \in Names
            /\ (c.state \in {"Resolving", "Connecting"} /\ c.name \in Names)
                   => c.resolves = 1
            /\ c.name = IpLiteral =>
                   /\ c.resolves = 0 /\ QueriesBy(i) = {}
                   /\ c.state \in {"Lazy", "Connecting"}
            /\ c.state # "Connecting" => Untouched(i))
    /\ [][\A i \in Born :
            Rank(conn'[i].state) >= Rank(conn[i].state)]_vars

\* one connection went through Resolving to Connecting and has started an
\* attempt, the other went to Connecting from an IP literal
C28_Witness ==
    \E i, j \in Born :
        /\ conn[i].name \in Names /\ conn[i].state = "Connecting"
        /\ ~conn[i].hit /\ conn[i].started # <<>>
        /\ conn[j].name = IpLiteral /\ conn[j].state = "Connecting"

-----------------------------------------------------------------------------
(* Request body claims *)

\* the chunks of the caller's body stream, none for a request without body
BodyItems == IF IsSome(req.body) THEN Unwrap(req.body) ELSE <<>>

\* the writes so far are the head and then the first n chunks, in order
WroteChunks(n) ==
    /\ Len(wire) = 1 + n
    /\ \A k \in 1..n : wire[1 + k] = BodyItems[k].data

\* C31: a chunk is pulled from the body stream only after the head and every
\* chunk pulled before it were written in full; nothing is read from the
\* server before the stream has ended and its last chunk is written; the
\* writes after the head are the chunks in stream order, none skipped or
\* repeated; an error item ends request() with no further write or read.
C31_ChunksInOrder ==
    /\ pulled > 0 => wire # <<>>
    /\ pulled <= Len(BodyItems)
    /\ \A k \in 1..pulled :
          ~BodyItems[k].ok =>
              /\ k = pulled /\ resp = Failed("body") /\ pc = "end"
              /\ WroteChunks(k - 1) /\ buf = <<>> /\ ~zero_read
    /\ pc = "write_chunk" =>
          /\ WroteChunks(pulled - 1)
          /\ chunk = Some(BodyItems[pulled].data)
    /\ pc = "next_chunk" => (WroteChunks(pulled) /\ IsNone(chunk))
    /\ (pc = "read" \/ buf # <<>> \/ zero_read) =>
          (pulled = Len(BodyItems) /\ WroteChunks(pulled))
    /\ wire # <<>> => \E n \in 0..pulled : WroteChunks(n)

\* a body of two chunks went out after the head, then the response was read
C31_Witness ==
    /\ Len(BodyItems) = 2 /\ pulled = 2 /\ Len(wire) = 3
    /\ wire[2] # wire[3]
    /\ resp.kind = "ok"

\* the header buffer is full and holds no terminator
BufferFull == Len(buf) = HeaderBufLen /\ TerminatorPos(buf) < 0

\* C37: the count of accumulated bytes never exceeds the 4096 bytes of the
\* header buffer; once the buffer is full without \r\n\r\n in it, the next
\* read that completes ends request() with an IO error and no Response; and
\* while reads keep completing the receive loop always ends.
C37_HeaderLoopEnds ==
    /\ [](Len(buf) <= HeaderBufLen)
    /\ []((BufferFull /\ pc = "end") => resp.kind = "err")
    /\ [][(BufferFull /\ pc = "read") => (pc' = "end" /\ resp'.kind = "err")]_vars
    /\ (pc = "read" ~> pc = "end")

\* the server sent 4096 bytes with no terminator among them and request()
\* failed on the read that followed
C37_Witness ==
    /\ BufferFull /\ Len(Stream(srv)) > HeaderBufLen
    /\ zero_read /\ resp = Failed("Broken headers")

\* the end of the header block in the server's bytes: the index after the
\* first \r\n\r\n
HeadEnd == TerminatorPos(Stream(srv)) + 4

\* the chunks the Body has emitted, without error items
Emitted == SelectSeq(out, LAMBDA it : it.kind = "chunk")

\* C32: whatever the split of the server's bytes across reads, the parser is
\* given exactly the bytes up to and including the first \r\n\r\n; rest is
\* exactly the bytes read after it; the Body starts with that rest, emits it
\* as its first chunk without reading, and reads on from where the receive
\* loop stopped, so that rest followed by what the Body reads is the server's
\* bytes after the terminator, none lost and none twice.
C32_HandOff ==
    /\ IsSome(parsed) => Unwrap(parsed) = SubSeq(Stream(srv), 1, HeadEnd)
    /\ resp.kind = "ok" =>
          /\ IsSome(parsed)
          /\ buf = SubSeq(Stream(srv), 1, Len(buf))
          /\ resp.rest = SubSeq(Stream(srv), HeadEnd + 1, Len(buf))
          /\ Unwrap(parsed) \o resp.rest = buf
          /\ rest0 = Some(resp.rest)
          /\ rets = <<>> => (body.rest = rest0 /\ reader.pos = Len(buf))
          /\ rets # <<>> => (rets[1] = "chunk" /\ IsNone(body.rest))
          /\ out # <<>> => out[1] = Item("chunk", "rest", resp.rest)
          /\ reader.pos >= Len(buf) /\ reader.pos <= Len(Stream(srv))
          /\ (IsNone(resp.content_length) /\ rets # <<>>) =>
                Flat(Emitted) = SubSeq(Stream(srv), HeadEnd + 1, reader.pos)

\* a byte after the header block came with the last read of the receive
\* loop and another one was read by the Body: the Body emitted rest, then
\* the later byte
C32_Witness ==
    /\ resp.kind = "ok" /\ IsNone(resp.content_length)
    /\ Len(resp.rest) = 1 /\ Len(Emitted) = 2
    /\ Emitted[1].src = "rest" /\ Emitted[2].src = "read"
    /\ Flat(Emitted) = SubSeq(Stream(srv), HeadEnd + 1, Len(Stream(srv)))
    /\ Len(srv.tail) = 2

-----------------------------------------------------------------------------
(* Status line claims *)

\* the status line of the block
StatusLineOf == IF IsSome(gen.line) THEN Unwrap(gen.line)
                ELSE StatusLine(gen.tok, gen.reason)

\* the first token of the line has the form HTTP/<version>
HttpForm(l) == LET x == Split(l, SP)[1] IN
               Len(x) > 5 /\ SubSeq(x, 1, 5) = HTTP \o <<"/">>

\* C33: parsing the status line never aborts; a status line whose first token
\* is not HTTP/<version> - a short line, an empty line, the bare token HTTP
\* among them - yields WrongStatusHeader, and a line with a valid code and no
\* reason token yields WrongStatusReason.
C33_MalformedStatusLine ==
    /\ items = <<>> => pstate # "panic"
    /\ (~HttpForm(StatusLineOf) /\ pstate # "run") =>
          (items # <<>> /\ items[1].kind = "WrongStatusHeader")
    /\ (IsNone(gen.line) /\ ValidCodeToken(gen.tok) /\ IsNone(gen.reason)
           /\ items # <<>>) => items[1].kind = "WrongStatusReason"

-----------------------------------------------------------------------------
(* Resolver and connector claims *)

\* C36: whatever address list resolution hands to the connector, the empty
\* list included, no poll of the connector aborts: a poll returns NotReady,
\* a stream or an io::Error.
C36_NoAbort ==
    \A i \in DOMAIN conn : conn[i].res.kind # "panic"

\* in this step the poll of connection i takes the successful completion of
\* its query q: the future was FromResolver(q, ..), the query has answered
\* and the future is Done afterwards
Completes(i, q) ==
    /\ conn[i].fut.kind = "FromResolver" /\ conn[i].fut.q = q
    /\ queries[q].state = "ok"
    /\ conn'[i].fut.kind = "Done"

\* C38: a cache entry is the address list of a successfully completed query
\* of that name; the entry changes only when a poll takes such a completion,
\* it then becomes the addresses of that query, whatever was there before
\* (the completion taken last wins), and the entries of the other names stay
\* as they are.
C38_LastCompletionWins ==
    /\ [](\A n \in CacheKeys :
            IsSome(cache[n]) =>
                \E q \in DOMAIN queries :
                    /\ queries[q].name = n /\ queries[q].state = "ok"
                    /\ Unwrap(cache[n]).addrs = queries[q].addrs)
    /\ [][\A i \in DOMAIN conn, q \in DOMAIN queries :
             Completes(i, q) =>
                 /\ Unwrap(cache'[queries[q].name]).addrs = queries[q].addrs
                 /\ \A m \in CacheKeys \ {queries[q].name} :
                        cache'[m] = cache[m]]_vars
    /\ [][cache' # cache =>
             \E i \in DOMAIN conn, q \in DOMAIN queries : Completes(i, q)]_vars

\* two queries of one name answered differently and both completions were
\* taken; the entry is the answer of one of them
C38_Witness ==
    /\ Len(queries) = 2 /\ queries[1].name = queries[2].name
    /\ queries[1].state = "ok" /\ queries[2].state = "ok"
    /\ queries[1].addrs # queries[2].addrs
    /\ \A i \in DOMAIN conn : conn[i].fut.kind = "Done" /\ ~conn[i].hit
    /\ Unwrap(cache[queries[1].name]).addrs = queries[1].addrs
    /\ IsNone(cache[HostB])

\* the query that resolve issued for connection i
OwnQueries(i) == {q \in DOMAIN queries : queries[q].by = i}

\* in this step the poll of connection j calls resolve
Resolves(j) == conn'[j].resolves = conn[j].resolves + 1

\* connection i has called resolve for name n, missed, and its query has not
\* completed
Waiting(i, n) ==
    /\ conn[i].resolves = 1 /\ ~conn[i].hit /\ conn[i].name = n
    /\ \A q \in OwnQueries(i) : queries[q].state = "pending"

\* C34: a resolve of a name for which another caller's query is still
\* pending misses as well and issues a query of its own, so that every caller
\* that missed has exactly one query; a caller that missed is given the
\* addresses of its own query; and every successful completion that is taken
\* inserts that query's addresses, stamped with the current instant.
C34_NoCoalescing ==
    /\ [](\A i \in DOMAIN conn :
            (conn[i].resolves = 1 /\ ~conn[i].hit) =>
                /\ Cardinality(OwnQueries(i)) = 1
                /\ \A q \in OwnQueries(i) :
                     /\ queries[q].name = conn[i].name
                     /\ conn[i].state = "Connecting" =>
                            /\ queries[q].state = "ok"
                            /\ conn[i].addrs = queries[q].addrs)
    /\ [][\A i, j \in DOMAIN conn :
             (i # j /\ Resolves(j) /\ Waiting(i, conn[j].name)) =>
                 /\ ~conn'[j].hit
                 /\ Len(queries') = Len(queries) + 1
                 /\ queries'[Len(queries')] = Query(conn[j].name, j)
                 /\ \A q \in DOMAIN queries : queries'[q] = queries[q]]_vars
    /\ [][\A i \in DOMAIN conn, q \in DOMAIN queries :
             Completes(i, q) =>
                 /\ q \in OwnQueries(i)
                 /\ cache'[queries[q].name] =
                        Some(Entry(queries[q].addrs, now))]_vars

\* both callers missed for one name, their queries answered differently, and
\* each holds the addresses of its own query
C34_Witness ==
    /\ \A i \in Conns : conn[i].resolves = 1 /\ ~conn[i].hit /\ ~conn[i].entry
    /\ conn[1].name = conn[2].name
    /\ Len(queries) = 2
    /\ queries[1].addrs # queries[2].addrs
    /\ \A i \in Conns :
         /\ conn[i].state = "Connecting"
         /\ \A q \in OwnQueries(i) : conn[i].addrs = queries[q].addrs
    /\ IsSome(cache[conn[1].name])

\* C35: entries are never removed, and a name whose lookup is a hit at some
\* instant is a hit at every later one, so that no resolve of it queries the
\* underlying resolver again.
C35_HitForEver ==
    /\ [][\A n \in CacheKeys : IsSome(cache[n]) => IsSome(cache'[n])]_vars
    /\ [][\A n \in CacheKeys :
             IsSome(lookup(cache, n, now)) =>
                 IsSome(lookup(cache', n, now'))]_vars

====
